---- MODULE Spec2Model ----
(***************************************************************************)
(* Verification model of the PDF accessibility tagger.                     *)
(*                                                                         *)
(* The state is one PDF file as the tools read and write it: its pages     *)
(* (content stream, StructParents, Annots, Tabs), its catalog (MarkInfo,    *)
(* Lang, ViewerPreferences, Metadata, StructTreeRoot with ParentTree), its *)
(* file name and the structure elements reachable                          *)
(* from the catalog, together with what the layout analysis of that file   *)
(* returns (classified elements, headings, figures) and the outcome of     *)
(* the last tool that ran. For the validator the state also holds the      *)
(* report veraPDF prints for the file and what the last validation         *)
(* returned.                                                               *)
(*                                                                         *)
(* Conventions: an optional PDF key is a sequence of length 0 (absent) or  *)
(* 1 (present); a structure element is named by its index in objs; text    *)
(* is a TLA+ string and a Python slice s[:n] is Take(s, n).                *)
(***************************************************************************)
EXTENDS Integers, Sequences, FiniteSets, TLC

VARIABLES
    pages,          \* pdf.pages: sequence of [Contents, StructParents, Annots, Tabs]
    Root,           \* pdf.Root: [MarkInfo, Lang, StructTreeRoot, ViewerPreferences, Metadata]
    objs,           \* the StructElem objects reachable from Root.StructTreeRoot
    elements,       \* what detect_content_elements returns for this file
    headings,       \* what detect_headings returns for this file
    figures,        \* what extract_figures returns for this file
    existing,       \* per page, the operators add_content_tags last parsed
    rewritten,      \* the pages whose content stream add_content_tags rewrote
    calls,          \* describer calls of the last tool, in call order
    last,           \* [op, result]: the last tool run and how it ended
    runs,           \* number of tool runs so far
    stem,           \* Path(pdf_path).stem of the file
    title_text,     \* what extract_title_from_pdf returns for this file
    report,         \* the XML report veraPDF prints for this file
    validated,      \* the last validation: its arguments and what it returned
    http            \* the HTTP transport: its keys, sessions, clock, last response

vars == <<pages, Root, objs, elements, headings, figures, existing, rewritten,
          calls, last, runs, stem, title_text, report, validated, http>>

-----------------------------------------------------------------------------
(* Bounds of the model.                                                    *)

MaxOps == 5         \* operators of a content stream (one-page files)
MaxElems == 2       \* classified elements of a page
MaxPages == 2       \* pages of a file
MaxDocElems == 2    \* classified elements of a file of several pages
MaxFigs == 1        \* figures of a file
MaxRuns == 3        \* tool runs on one file
MaxAnnots == 2      \* annotations of a page

NoKey == -1         \* an absent integer key (StructParents, MCID)

-----------------------------------------------------------------------------
(* Text.                                                                   *)

Min(a, b) == IF a <= b THEN a ELSE b

\* Python s[:n]
Take(s, n) == SubSeq(s, 1, Min(n, Len(s)))

Some(x) == <<x>>
None == <<>>
IsSome(o) == Len(o) = 1
Get(o) == o[1]

-----------------------------------------------------------------------------
(* Content streams: a sequence of (operands, operator). The operands of a  *)
(* BDC are its tag name and the MCID of its property dictionary; src tells *)
(* an operator copied from the parsed stream from one the rewriter         *)
(* appended itself.                                                        *)

FigureBDC == [operator |-> "BDC", tag |-> "/Figure", mcid |-> NoKey, src |-> "in"]
SpanBDC == [operator |-> "BDC", tag |-> "/Span", mcid |-> NoKey, src |-> "in"]
TaggedBDC == [operator |-> "BDC", tag |-> "/P", mcid |-> 0, src |-> "in"]
EMC == [operator |-> "EMC", tag |-> "", mcid |-> NoKey, src |-> "in"]
Tj == [operator |-> "Tj", tag |-> "", mcid |-> NoKey, src |-> "in"]

InputOps == {FigureBDC, SpanBDC, TaggedBDC, EMC, Tj}

\* marked-content depth after the first n operators
Depth(ops, n) ==
    Cardinality({i \in 1..n : ops[i].operator = "BDC"})
        - Cardinality({i \in 1..n : ops[i].operator = "EMC"})

\* matched, properly nested BDC/EMC pairs
Balanced(ops) ==
    /\ Depth(ops, Len(ops)) = 0
    /\ \A n \in 0..Len(ops) : Depth(ops, n) >= 0

\* the content streams of 1..n operators of a well-formed page: it paints
\* something and its own marked-content operators are balanced
Streams(n) == {ops \in UNION {[1..k -> InputOps] : k \in 1..n} : Balanced(ops)}

\* parse_content_stream: the operators of the page, none of them appended yet
parse_content_stream(contents) ==
    [i \in 1..Len(contents) |-> [contents[i] EXCEPT !.src = "in"]]

-----------------------------------------------------------------------------
(* add_content_tags                                                        *)

ElementTypes == {"H1", "H2", "H3", "P", "Formula"}

type_name_map(t) ==
    CASE t = "H1" -> "/H1"
      [] t = "H2" -> "/H2"
      [] t = "H3" -> "/H3"
      [] t = "P" -> "/P"
      [] t = "Formula" -> "/Formula"
      [] OTHER -> "/P"

\* elements_by_page[page_num]
ElementsOfPage(elems, page_num) == SelectSeq(elems, LAMBDA e : e.page = page_num)

\* sorted(elements_by_page.keys()) as a set; pages are visited in ascending order
PagesWithElements(elems) == {elems[i].page : i \in 1..Len(elems)}

\* the K BDC operators that replace a /Figure BDC
ElementBDCs(page_elements) ==
    [i \in 1..Len(page_elements) |->
        [operator |-> "BDC", tag |-> type_name_map(page_elements[i].type),
         mcid |-> i - 1, src |-> "new"]]

\* the K EMC operators that replace the EMC seen while in_figure_block
ElementEMCs(page_elements) ==
    [i \in 1..Len(page_elements) |->
        [operator |-> "EMC", tag |-> "", mcid |-> NoKey, src |-> "new"]]

RECURSIVE RewriteFrom(_, _, _, _)
RewriteFrom(existing_ops, i, in_figure_block, page_elements) ==
    IF i > Len(existing_ops) THEN <<>>
    ELSE LET o == existing_ops[i] IN
         IF o.operator = "BDC" /\ o.tag = "/Figure"
         THEN ElementBDCs(page_elements)
                 \o RewriteFrom(existing_ops, i + 1, TRUE, page_elements)
         ELSE IF o.operator = "EMC" /\ in_figure_block
         THEN ElementEMCs(page_elements)
                 \o RewriteFrom(existing_ops, i + 1, FALSE, page_elements)
         ELSE <<o>> \o RewriteFrom(existing_ops, i + 1, in_figure_block, page_elements)

\* new_page_ops of one page
new_page_ops(existing_ops, page_elements) ==
    RewriteFrom(existing_ops, 1, FALSE, page_elements)

-----------------------------------------------------------------------------
(* Structure elements. A StructElem is [S, P, Pg, K, MCR, Alt]: P is the   *)
(* index of the parent element (0 for the StructTreeRoot), K the indices   *)
(* of the child elements, MCR the marked-content reference held in /K.     *)

StructElem(s, p, pg, k, mcr, alt) ==
    [S |-> s, P |-> p, Pg |-> pg, K |-> k, MCR |-> mcr, Alt |-> alt]

\* key under which generate_formula_descriptions stores a description
DescKey(elem) == <<elem.page, elem.block_idx>>

\* the /Alt add_content_tags attaches to the element
content_alt_text(elem, use_ai_formula_descriptions, formula_descriptions) ==
    IF elem.type = "Formula"
    THEN IF use_ai_formula_descriptions /\ DescKey(elem) \in DOMAIN formula_descriptions
         THEN Some(formula_descriptions[DescKey(elem)])
         ELSE Some("Mathematical formula: " \o Take(elem.text, 200))
    ELSE IF elem.type \in {"H1", "H2", "H3"}
    THEN Some(Take(elem.text, 200))
    ELSE None

\* the leaf StructElem of the elem_idx-th element of a page (elem_idx from 0)
content_struct_elem(elem, page_num, elem_idx, use_ai, formula_descriptions) ==
    StructElem(type_name_map(elem.type), 1, page_num, <<>>,
               Some([Pg |-> page_num, MCID |-> elem_idx]),
               content_alt_text(elem, use_ai, formula_descriptions))

\* the leaves of one page, in element order
page_struct_elems(elems, page_num, use_ai, formula_descriptions) ==
    LET page_elements == ElementsOfPage(elems, page_num) IN
    [i \in 1..Len(page_elements) |->
        content_struct_elem(page_elements[i], page_num, i - 1, use_ai, formula_descriptions)]

\* the leaves of pages 0..n-1, pages in ascending order
RECURSIVE struct_elems_upto(_, _, _, _)
struct_elems_upto(elems, n, use_ai, formula_descriptions) ==
    IF n = 0 THEN <<>>
    ELSE struct_elems_upto(elems, n - 1, use_ai, formula_descriptions)
            \o page_struct_elems(elems, n - 1, use_ai, formula_descriptions)

\* indices in objs of the leaves of page_num, given that the Document element
\* is objs[1] and the leaves follow it in page order
parent_tree_entry(elems, page_num) ==
    LET before == Cardinality({i \in 1..Len(elems) : elems[i].page < page_num})
        here == Len(ElementsOfPage(elems, page_num))
    IN [i \in 1..here |-> 1 + before + i]

\* the entries of the pages 0..n-1 with the last page first
RECURSIVE nums_last_page_first(_, _)
nums_last_page_first(elems, n) ==
    IF n = 0 THEN <<>>
    ELSE (IF (n - 1) \in PagesWithElements(elems)
          THEN <<[key |-> n - 1, arr |-> parent_tree_entry(elems, n - 1)]>>
          ELSE <<>>)
            \o nums_last_page_first(elems, n - 1)

\* nums_array: (page_num, struct_refs) for the pages with elements, ascending
RECURSIVE nums_array_upto(_, _)
nums_array_upto(elems, n) ==
    IF n = 0 THEN <<>>
    ELSE nums_array_upto(elems, n - 1)
            \o (IF (n - 1) \in PagesWithElements(elems)
                THEN <<[key |-> n - 1, arr |-> parent_tree_entry(elems, n - 1)]>>
                ELSE <<>>)

\* the page after the loop body of add_content_tags ran for it
content_tagged_page(page, page_num, elems) ==
    IF page_num \in PagesWithElements(elems)
    THEN [page EXCEPT
            !.Contents = new_page_ops(parse_content_stream(page.Contents),
                                      ElementsOfPage(elems, page_num)),
            !.StructParents = page_num]
    ELSE page

\* add_content_tags: the file it saves
add_content_tags(pgs, root, elems, use_ai, formula_descriptions) ==
    LET leaves == struct_elems_upto(elems, Len(pgs), use_ai, formula_descriptions)
        doc_elem == StructElem("/Document", 0, NoKey,
                               [i \in 1..Len(leaves) |-> i + 1], None, None)
        struct_tree == [K |-> <<1>>,
                        Nums |-> nums_array_upto(elems, Len(pgs)),
                        ParentTreeNextKey |-> Some(Len(pgs))]
    IN [pages |-> [p \in 1..Len(pgs) |-> content_tagged_page(pgs[p], p - 1, elems)],
        Root |-> [root EXCEPT !.StructTreeRoot = Some(struct_tree)],
        objs |-> <<doc_elem>> \o leaves,
        existing |-> [p \in 1..Len(pgs) |->
                        IF (p - 1) \in PagesWithElements(elems)
                        THEN parse_content_stream(pgs[p].Contents) ELSE <<>>],
        rewritten |-> PagesWithElements(elems)]

NoDescriptions == <<>>

-----------------------------------------------------------------------------
(* The catalog and the structure tree, as the tools other than             *)
(* add_content_tags handle them. A file is [pages, Root, objs].            *)

MarkedNoSuspects == [Marked |-> Some(TRUE), Suspects |-> Some(FALSE)]

EmptyStructTreeRoot == [K |-> <<>>, Nums |-> <<>>, ParentTreeNextKey |-> None]

\* "if Name.StructTreeRoot not in pdf.Root: pdf.Root.StructTreeRoot = ..."
with_struct_tree_root(root) ==
    IF IsSome(root.StructTreeRoot) THEN root
    ELSE [root EXCEPT !.StructTreeRoot = Some(EmptyStructTreeRoot)]

\* "if Name.ViewerPreferences not in pdf.Root: ...; DisplayDocTitle = True"
with_display_doc_title(root) ==
    [root EXCEPT !.ViewerPreferences =
        IF IsSome(root.ViewerPreferences)
        THEN Some([Get(root.ViewerPreferences) EXCEPT !.DisplayDocTitle = Some(TRUE)])
        ELSE Some([DisplayDocTitle |-> Some(TRUE)])]

\* create_basic_structure: MarkInfo, Lang, ViewerPreferences and StructTreeRoot
create_basic_structure(f, lang) ==
    [f EXCEPT !.Root = with_struct_tree_root(with_display_doc_title(
        [f.Root EXCEPT !.MarkInfo = Some(MarkedNoSuspects), !.Lang = Some(lang)]))]

\* is_tagged_pdf
is_tagged_pdf(f) ==
    IF IsSome(f.Root.MarkInfo) /\ IsSome(Get(f.Root.MarkInfo).Marked)
    THEN Get(Get(f.Root.MarkInfo).Marked)
    ELSE IsSome(f.Root.StructTreeRoot)

\* ensure_basic_structure (tag_injector)
ensure_basic_structure(root) ==
    with_struct_tree_root(with_display_doc_title(
        [root EXCEPT
            !.MarkInfo = IF IsSome(root.MarkInfo)
                         THEN Some([Get(root.MarkInfo) EXCEPT !.Marked = Some(TRUE)])
                         ELSE Some(MarkedNoSuspects),
            !.Lang = IF IsSome(root.Lang) THEN root.Lang ELSE Some("en-US")]))

\* does struct_tree.K start with a Document element
has_document_element(f) ==
    LET k == Get(f.Root.StructTreeRoot).K IN
    Len(k) > 0 /\ f.objs[k[1]].S = "/Document"

\* get_or_create_document_element / the same lines of add_heading_tags:
\* the file with a Document element, and the index of that element
with_document_element(f) ==
    IF has_document_element(f) THEN f
    ELSE LET id == Len(f.objs) + 1 IN
         [f EXCEPT
            !.objs = Append(f.objs, StructElem("/Document", 0, NoKey, <<>>, None, None)),
            !.Root.StructTreeRoot =
                Some([Get(f.Root.StructTreeRoot) EXCEPT !.K = Append(@, id)])]

document_element(f) == Get(f.Root.StructTreeRoot).K[1]

\* append a new child element to the element parent
append_child(f, parent, elem) ==
    LET id == Len(f.objs) + 1 IN
    [f EXCEPT !.objs = Append([f.objs EXCEPT ![parent].K = Append(@, id)], elem)]

heading_name_map(level) ==
    CASE level = 1 -> "/H1"
      [] level = 2 -> "/H2"
      [] level = 3 -> "/H3"
      [] OTHER -> "/H"

\* the loop of add_heading_tags over headings[i..]
RECURSIVE add_heading_elems(_, _, _, _)
add_heading_elems(f, doc_elem, hs, i) ==
    IF i > Len(hs) THEN f
    ELSE add_heading_elems(
            append_child(f, doc_elem,
                StructElem(heading_name_map(hs[i].level), doc_elem, NoKey, <<>>,
                           None, Some(hs[i].text))),
            doc_elem, hs, i + 1)

\* add_heading_tags
add_heading_tags(f, hs) ==
    LET g == with_document_element([f EXCEPT !.Root = with_struct_tree_root(f.Root)])
    IN add_heading_elems(g, document_element(g), hs, 1)

\* the loop of inject_alt_text over figures_with_alt[i..], each add_figure_element
RECURSIVE add_figure_elements(_, _, _, _)
add_figure_elements(f, parent, figures_with_alt, i) ==
    IF i > Len(figures_with_alt) THEN f
    ELSE add_figure_elements(
            append_child(f, parent,
                StructElem("/Figure", parent, NoKey, <<>>, None,
                           Some(figures_with_alt[i].alt_text))),
            parent, figures_with_alt, i + 1)

\* inject_alt_text
inject_alt_text(f, figures_with_alt) ==
    LET g == with_document_element([f EXCEPT !.Root = ensure_basic_structure(f.Root)])
    IN add_figure_elements(g, document_element(g), figures_with_alt, 1)

-----------------------------------------------------------------------------
(* The describer (ai_describer). An outcome is what the vision model does  *)
(* for one call: [kind |-> "text", text |-> the response text],            *)
(* [kind |-> "error", text |-> the message of the exception it raises] or, *)
(* for a formula, [kind |-> "render_error", ...] when the region cannot be *)
(* rendered. A call returns [result, raised, text].                        *)

RECURSIVE lstrip(_, _)
lstrip(s, chars) ==
    IF Len(s) > 0 /\ SubSeq(s, 1, 1) \in chars
    THEN lstrip(SubSeq(s, 2, Len(s)), chars) ELSE s

RECURSIVE rstrip(_, _)
rstrip(s, chars) ==
    IF Len(s) > 0 /\ SubSeq(s, Len(s), Len(s)) \in chars
    THEN rstrip(SubSeq(s, 1, Len(s) - 1), chars) ELSE s

\* str.strip(chars)
strip(s, chars) == rstrip(lstrip(s, chars), chars)

Whitespace == {" ", "\t", "\n"}
QuoteChars == {"\"", "'"}

\* response.text.strip().strip('"\'')
clean_response(text) == strip(strip(text, Whitespace), QuoteChars)

\* how a describer call ends: the response text is returned ("described"), the
\* except branch returns its message ("failed"), or an exception leaves the call
Returned(text) == [result |-> "described", raised |-> FALSE, text |-> text]
Failed(text) == [result |-> "failed", raised |-> FALSE, text |-> text]
Raised(message) == [result |-> "raised", raised |-> TRUE, text |-> message]

\* configure_gemini raises ValueError without a key
NoKeyMessage == "GEMINI_API_KEY not found. Set it in .env or pass directly."

\* generate_alt_text
generate_alt_text(outcome, api_key) ==
    IF ~api_key THEN Raised(NoKeyMessage)
    ELSE IF outcome.kind = "text" THEN Returned(clean_response(outcome.text))
    ELSE Failed("[Alt-text generation failed: " \o outcome.text \o "]")

\* generate_formula_description
generate_formula_description(outcome, api_key) ==
    IF ~api_key THEN Raised(NoKeyMessage)
    ELSE IF outcome.kind = "text" THEN Returned(clean_response(outcome.text))
    ELSE Failed("[Formula description failed: " \o outcome.text \o "]")

\* describe_formula_from_pdf: render_pdf_region, then generate_formula_description
describe_formula_from_pdf(outcome, api_key) ==
    IF outcome.kind = "render_error" THEN Raised(outcome.text)
    ELSE generate_formula_description(outcome, api_key)

\* the loop of generate_formula_descriptions over elems[i..]; acc is
\* [descriptions, calls], the j-th describer call meets outcomes[j]
RECURSIVE formula_descriptions_from(_, _, _, _, _, _, _)
formula_descriptions_from(elems, i, formula_count, max_formulas, outcomes, api_key, acc) ==
    IF i > Len(elems) THEN acc
    ELSE IF elems[i].type # "Formula"
    THEN formula_descriptions_from(elems, i + 1, formula_count, max_formulas,
                                   outcomes, api_key, acc)
    ELSE IF formula_count >= max_formulas THEN acc
    ELSE LET r == describe_formula_from_pdf(outcomes[Len(acc.calls) + 1], api_key)
             call == [kind |-> "formula", key |-> DescKey(elems[i]), result |-> r.result]
         IN IF r.raised
            THEN formula_descriptions_from(elems, i + 1, formula_count, max_formulas,
                    outcomes, api_key,
                    [descriptions |->
                        (DescKey(elems[i]) :> ("Mathematical formula: "
                                                  \o Take(elems[i].text, 100)))
                            @@ acc.descriptions,
                     calls |-> Append(acc.calls, call)])
            ELSE formula_descriptions_from(elems, i + 1, formula_count + 1, max_formulas,
                    outcomes, api_key,
                    [descriptions |-> (DescKey(elems[i]) :> r.text) @@ acc.descriptions,
                     calls |-> Append(acc.calls, call)])

\* generate_formula_descriptions: [descriptions, calls]
generate_formula_descriptions(elems, max_formulas, outcomes, api_key) ==
    formula_descriptions_from(elems, 1, 0, max_formulas, outcomes, api_key,
                              [descriptions |-> NoDescriptions, calls |-> <<>>])

\* the loop of make_accessible over figures[i..]: generate_alt_text for each;
\* acc is [raised, figures_with_alt, calls]
RECURSIVE figure_alt_texts_from(_, _, _, _, _)
figure_alt_texts_from(figs, i, outcomes, api_key, acc) ==
    IF i > Len(figs) \/ acc.raised THEN acc
    ELSE LET r == generate_alt_text(outcomes[i], api_key)
             call == [kind |-> "figure", key |-> <<figs[i].page_num, figs[i].index>>,
                      result |-> r.result]
         IN figure_alt_texts_from(figs, i + 1, outcomes, api_key,
                [raised |-> r.raised,
                 figures_with_alt |->
                    IF r.raised THEN acc.figures_with_alt
                    ELSE Append(acc.figures_with_alt,
                                [figure |-> figs[i], alt_text |-> r.text]),
                 calls |-> Append(acc.calls, call)])

figure_alt_texts(figs, outcomes, api_key) ==
    figure_alt_texts_from(figs, 1, outcomes, api_key,
        [raised |-> FALSE, figures_with_alt |-> <<>>, calls |-> <<>>])

-----------------------------------------------------------------------------
(* Finalisation of the catalog and the pages: XMP metadata, the Tabs key   *)
(* and the Contents of link annotations. An annotation is [Subtype,        *)
(* Contents, URI]; URI is absent when the annotation has no /A or its      *)
(* action has no /URI.                                                     *)

\* str.find from position i: position (from 1) of the first occurrence, 0 if none
RECURSIVE find_from(_, _, _)
find_from(s, sub, i) ==
    IF i + Len(sub) - 1 > Len(s) THEN 0
    ELSE IF SubSeq(s, i, i + Len(sub) - 1) = sub THEN i
    ELSE find_from(s, sub, i + 1)

\* sub in s
contains(s, sub) == find_from(s, sub, 1) # 0

\* str.replace(old, new): every occurrence, left to right
RECURSIVE replace(_, _, _)
replace(s, old, new) ==
    LET i == find_from(s, old, 1) IN
    IF i = 0 THEN s
    ELSE SubSeq(s, 1, i - 1) \o new
            \o replace(SubSeq(s, i + Len(old), Len(s)), old, new)

\* escape_xml of add_xmp_metadata
escape_xml(s) ==
    replace(replace(replace(replace(replace(s, "&", "&amp;"), "<", "&lt;"),
                            ">", "&gt;"), "\"", "&quot;"), "'", "&apos;")

\* add_xmp_metadata: the catalog with the new Metadata stream (dates left out)
add_xmp_metadata(root, title, lang) ==
    [root EXCEPT !.Metadata = Some([title |-> escape_xml(title), lang |-> lang])]

\* "if annots and len(annots) > 0" of add_page_tabs_key
has_annotations(page) == IsSome(page.Annots) /\ Len(Get(page.Annots)) > 0

\* the loop body of add_page_tabs_key for one page
tabs_key_added(page) == has_annotations(page) /\ ~IsSome(page.Tabs)

\* add_page_tabs_key: the pages, and the count it returns
add_page_tabs_key(pgs) ==
    [pages |-> [p \in 1..Len(pgs) |->
                    IF tabs_key_added(pgs[p]) THEN [pgs[p] EXCEPT !.Tabs = Some("/S")]
                    ELSE pgs[p]],
     modified_count |-> Cardinality({p \in 1..Len(pgs) : tabs_key_added(pgs[p])})]

\* position of the first character of s that is in chars, Len(s) + 1 if none
RECURSIVE first_of(_, _, _)
first_of(s, chars, i) ==
    IF i > Len(s) THEN Len(s) + 1
    ELSE IF SubSeq(s, i, i) \in chars THEN i
    ELSE first_of(s, chars, i + 1)

\* urllib.parse.urlparse(uri): [raised, netloc, path]
urlparse(uri) ==
    LET Chars(s) == {SubSeq(s, i, i) : i \in 1..Len(s)}
        Letters == Chars("abcdefghijklmnopqrstuvwxyzABCDEFGHIJKLMNOPQRSTUVWXYZ")
        SchemeChars == Letters \cup Chars("0123456789+-.")
        colon == find_from(uri, ":", 1)
        has_scheme == /\ colon > 1
                      /\ SubSeq(uri, 1, 1) \in Letters
                      /\ Chars(SubSeq(uri, 1, colon - 1)) \subseteq SchemeChars
        url == IF has_scheme THEN SubSeq(uri, colon + 1, Len(uri)) ELSE uri
        has_netloc == Take(url, 2) = "//"
        netloc_end == first_of(url, {"/", "?", "#"}, 3)
        netloc == IF has_netloc THEN SubSeq(url, 3, netloc_end - 1) ELSE ""
        rest == IF has_netloc THEN SubSeq(url, netloc_end, Len(url)) ELSE url
        path == SubSeq(rest, 1, first_of(rest, {"?", "#"}, 1) - 1)
    IN [raised |-> contains(netloc, "[") # contains(netloc, "]"),
        netloc |-> netloc, path |-> path]

\* the alt-text add_link_alt_texts generates for a link annotation
link_alt_text(annot) ==
    IF ~IsSome(annot.URI) THEN "Link"
    ELSE LET uri == Get(annot.URI) IN
         IF contains(uri, "mailto:")
         THEN "Email link to " \o replace(uri, "mailto:", "")
         ELSE IF contains(uri, "http")
         THEN LET parsed == urlparse(uri) IN
              IF parsed.raised THEN "Link to " \o Take(uri, 50)
              ELSE LET domain == replace(parsed.netloc, "www.", "")
                       path == strip(parsed.path, {"/"})
                   IN IF Len(path) > 0 THEN "Link to " \o path \o " on " \o domain
                      ELSE "Link to " \o domain
         ELSE "Link: " \o Take(uri, 50)

\* is the Contents of this annotation written by add_link_alt_texts
link_modified(annot) ==
    /\ annot.Subtype = "/Link"
    /\ ~(IsSome(annot.Contents) /\ Len(Get(annot.Contents)) > 0)

\* the loop body of add_link_alt_texts for one annotation
link_fixed(annot) ==
    IF link_modified(annot) THEN [annot EXCEPT !.Contents = Some(link_alt_text(annot))]
    ELSE annot

\* add_link_alt_texts(path, path): the pages, and the count it returns
add_link_alt_texts(pgs) ==
    [pages |-> [p \in 1..Len(pgs) |->
                    IF IsSome(pgs[p].Annots)
                    THEN [pgs[p] EXCEPT !.Annots =
                            Some([a \in 1..Len(Get(pgs[p].Annots)) |->
                                    link_fixed(Get(pgs[p].Annots)[a])])]
                    ELSE pgs[p]],
     modified_count |->
        Cardinality({<<p, a>> \in (1..Len(pgs)) \X (1..MaxAnnots) :
                        /\ IsSome(pgs[p].Annots)
                        /\ a <= Len(Get(pgs[p].Annots))
                        /\ link_modified(Get(pgs[p].Annots)[a])})]

-----------------------------------------------------------------------------
(* create_full_structure                                                   *)

\* step 1 of create_full_structure: MarkInfo, Lang, ViewerPreferences,
\* StructTreeRoot
full_structure_catalog(root, lang) ==
    with_struct_tree_root(with_display_doc_title(
        [root EXCEPT !.MarkInfo = Some(MarkedNoSuspects), !.Lang = Some(lang)]))

NoRewrite(f) == [file |-> f, existing |-> [p \in 1..Len(f.pages) |-> <<>>],
                 rewritten |-> {}, calls |-> <<>>]

\* steps 1-3 of create_full_structure: the file of the first pdf.save
full_structure_saved(f, lang, pdf_stem, extracted_title) ==
    [f EXCEPT
        !.Root = add_xmp_metadata(full_structure_catalog(f.Root, lang),
                                  IF IsSome(extracted_title) THEN Get(extracted_title) ELSE pdf_stem,
                                  lang),
        !.pages = add_page_tabs_key(f.pages).pages]

\* step 4 of create_full_structure on the saved file g
full_structure_tagged(g, elems, hs, tag_headings, tag_all_content, use_ai, max_ai_formulas, outcomes, api_key) ==
    IF tag_all_content
    THEN IF Len(elems) > 0
         THEN LET d == IF use_ai
                       THEN generate_formula_descriptions(elems, max_ai_formulas,
                                                          outcomes, api_key)
                       ELSE [descriptions |-> NoDescriptions, calls |-> <<>>]
                  out == add_content_tags(g.pages, g.Root, elems, use_ai, d.descriptions)
              IN [file |-> [pages |-> out.pages, Root |-> out.Root, objs |-> out.objs],
                  existing |-> out.existing, rewritten |-> out.rewritten,
                  calls |-> d.calls]
         ELSE NoRewrite(g)
    ELSE IF tag_headings /\ Len(hs) > 0
    THEN NoRewrite(add_heading_tags(g, hs))
    ELSE NoRewrite(g)

\* create_full_structure: [file, existing, rewritten, calls]
create_full_structure(f, elems, hs, lang, tag_headings, tag_all_content, use_ai, max_ai_formulas, outcomes, api_key, fix_links, pdf_stem, extracted_title) ==
    LET r == full_structure_tagged(full_structure_saved(f, lang, pdf_stem, extracted_title),
                 elems, hs, tag_headings, tag_all_content, use_ai, max_ai_formulas,
                 outcomes, api_key)
    IN IF fix_links
       THEN [r EXCEPT !.file.pages = add_link_alt_texts(r.file.pages).pages]
       ELSE r

-----------------------------------------------------------------------------
(* The tools as actions. File is the PDF the tool opens; what PyMuPDF      *)
(* finds in it (elements, headings, figures) does not depend on its tags,  *)
(* so the three lists stay as they are.                                    *)

DefaultMaxAiFormulas == 50  \* max_ai_formulas

File == [pages |-> pages, Root |-> Root, objs |-> objs]

Formulas(elems) == {i \in 1..Len(elems) : elems[i].type = "Formula"}

\* what the vision model may do for one call
Responses == {"\"A 3 by 2 matrix\" ", ""}
ModelOutcomes ==
    {[kind |-> "text", text |-> r] : r \in Responses}
        \cup {[kind |-> "error", text |-> "429 quota exceeded"]}
FormulaOutcomes == ModelOutcomes \cup {[kind |-> "render_error", text |-> "empty clip"]}

UserAltTexts == {"A bar chart of sales by year"}

\* one more run of a tool on the file
Run ==
    /\ runs < MaxRuns
    /\ runs' = runs + 1
    /\ UNCHANGED <<elements, headings, figures, title_text, report, validated, http>>

\* the tool was given output_path = pdf_path
InPlace == stem' = stem

Written(f, op) ==
    /\ pages' = f.pages
    /\ Root' = f.Root
    /\ objs' = f.objs
    /\ last' = [op |-> op, result |-> "ok"]

NotWritten(op, result) ==
    /\ UNCHANGED <<pages, Root, objs, existing, rewritten, stem>>
    /\ last' = [op |-> op, result |-> result]

NothingRewritten ==
    /\ existing' = [p \in 1..Len(pages) |-> <<>>]
    /\ rewritten' = {}

\* add_content_tags(path, elements, path) with the elements detected in the file
AddContentTags ==
    /\ Run
    /\ LET out == add_content_tags(pages, Root, elements, FALSE, NoDescriptions) IN
        /\ pages' = out.pages
        /\ Root' = out.Root
        /\ objs' = out.objs
        /\ existing' = out.existing
        /\ rewritten' = out.rewritten
    /\ calls' = <<>>
    /\ last' = [op |-> "add_content_tags", result |-> "ok"]
    /\ InPlace

\* tool add_structure_tags, CLI add-tags
CreateBasicStructure ==
    /\ Run
    /\ Written(create_basic_structure(File, "en-US"), "create_basic_structure")
    /\ NothingRewritten
    /\ calls' = <<>>
    /\ InPlace

\* the file and the describer calls create_full_structure leaves
FullStructureWritten(r) ==
    /\ Written(r.file, "create_full_structure")
    /\ existing' = r.existing
    /\ rewritten' = r.rewritten
    /\ calls' = r.calls
    /\ InPlace

\* create_full_structure without AI descriptions (tool add_full_structure)
CreateFullStructure ==
    /\ Run
    /\ \E tag_headings \in BOOLEAN, tag_all_content \in BOOLEAN, fix_links \in BOOLEAN :
          FullStructureWritten(
              create_full_structure(File, elements, headings, "en-US", tag_headings,
                  tag_all_content, FALSE, DefaultMaxAiFormulas, <<>>, FALSE,
                  fix_links, stem, title_text))

\* create_full_structure with use_ai_formula_descriptions
CreateFullStructureAi ==
    /\ Run
    /\ \E max_ai_formulas \in {0, 1, DefaultMaxAiFormulas}, api_key \in BOOLEAN :
        \E outcomes \in [1..Cardinality(Formulas(elements)) -> FormulaOutcomes] :
          FullStructureWritten(
              create_full_structure(File, elements, headings, "en-US", TRUE, TRUE,
                  TRUE, max_ai_formulas, outcomes, api_key, TRUE, stem, title_text))

\* tool tag_headings
TagHeadings ==
    /\ Run
    /\ IF Len(headings) = 0
       THEN NotWritten("tag_headings", "failed")
       ELSE /\ Written(add_heading_tags(File, headings), "tag_headings")
            /\ NothingRewritten
            /\ InPlace
    /\ calls' = <<>>

\* tool add_alt_text: inject_single_alt_text(path, page_num, image_index, alt_text)
AddAltText ==
    /\ Run
    /\ \E page_num \in 0..(Len(pages) - 1), alt_text \in UserAltTexts :
        LET found == {i \in 1..Len(figures) :
                        figures[i].page_num = page_num /\ figures[i].index = 0}
        IN IF found = {}
           THEN NotWritten("add_alt_text", "raised")
           ELSE LET target_fig == figures[CHOOSE i \in found : \A j \in found : i <= j]
                IN /\ Written(inject_alt_text(File,
                            <<[figure |-> target_fig, alt_text |-> alt_text]>>),
                        "add_alt_text")
                   /\ NothingRewritten
                   /\ InPlace
    /\ calls' = <<>>

\* steps 2-4 of make_accessible on the file g that step 1 left under the
\* name working_stem; output_path is pdf_path (in_place) or not given
AltTextSteps(g, rewrite, op, working_stem) ==
    \E api_key \in BOOLEAN, in_place \in BOOLEAN :
      \E outcomes \in [1..Len(figures) -> ModelOutcomes] :
        LET a == figure_alt_texts(figures, outcomes, api_key) IN
        /\ calls' = a.calls
        /\ IF a.raised
           THEN NotWritten(op, "raised")
           ELSE /\ Written(IF Len(a.figures_with_alt) > 0
                           THEN inject_alt_text(g, a.figures_with_alt) ELSE g, op)
                /\ existing' = rewrite.existing
                /\ rewritten' = rewrite.rewritten
                /\ stem' = IF in_place THEN stem
                           ELSE IF Len(a.figures_with_alt) > 0
                           THEN working_stem \o "_accessible"
                           ELSE working_stem

\* tool make_accessible (mcp_server)
MakeAccessibleTool ==
    /\ Run
    /\ LET r == create_full_structure(File, elements, headings, "en-US", TRUE, TRUE,
                    FALSE, DefaultMaxAiFormulas, <<>>, FALSE, TRUE, stem, title_text)
       IN AltTextSteps(r.file, r, "make_accessible", stem \o "_full_structure")

\* CLI make-accessible
MakeAccessibleCli ==
    /\ Run
    /\ IF is_tagged_pdf(File)
       THEN AltTextSteps(File, NoRewrite(File), "cli_make_accessible", stem)
       ELSE LET g == create_basic_structure(File, "en-US")
            IN AltTextSteps(g, NoRewrite(g), "cli_make_accessible", stem \o "_tagged")

-----------------------------------------------------------------------------
(* SpecRewrite: add_content_tags on every one-page file whose content      *)
(* stream has at most MaxOps operators and whose page has 1..MaxElems      *)
(* classified elements.                                                    *)

SampleText == "Introduction"

EmptyCatalog ==
    [MarkInfo |-> None, Lang |-> None, StructTreeRoot |-> None,
     ViewerPreferences |-> None, Metadata |-> None]

\* a page without annotations and without Tabs
Page(contents, struct_parents) ==
    [Contents |-> contents, StructParents |-> struct_parents, Annots |-> None,
     Tabs |-> None]

\* the element lists of a page with k elements, block_idx dense
PageElementLists(page_num, k, choices) ==
    {[i \in 1..k |-> [type |-> c[i].type, text |-> c[i].text, page |-> page_num,
                      block_idx |-> i - 1]] : c \in [1..k -> choices]}

NoToolYet ==
    /\ rewritten = {}
    /\ calls = <<>>
    /\ last = [op |-> "none", result |-> "ok"]
    /\ runs = 0
    /\ stem = "paper"
    /\ validated = [op |-> "none"]
    /\ http = [VALID_API_KEYS |-> {}, sessions |-> <<>>, now |-> 0, created |-> 0,
               response |-> [method |-> "none"]]

InitRewrite ==
    /\ \E contents \in Streams(MaxOps) :
          pages = <<Page(contents, NoKey)>>
    /\ \E k \in 1..MaxElems :
          elements \in PageElementLists(0, k, [type : ElementTypes, text : {SampleText}])
    /\ Root = EmptyCatalog
    /\ objs = <<>>
    /\ headings = <<>>
    /\ figures = <<>>
    /\ existing = <<<<>>>>
    /\ title_text = None
    /\ NoToolYet
    /\ report = None

NextRewrite == AddContentTags

SpecRewrite == InitRewrite /\ [][NextRewrite]_vars

-----------------------------------------------------------------------------
(* Spec: the tagging tools, in any order, on files of 1..MaxPages pages:   *)
(* untagged files and files another tagger left (all content of a page in  *)
(* one /Figure wrapper, a catalog with MarkInfo and StructTreeRoot, a      *)
(* StructParents key on every page).                                       *)

PlainPage == <<Tj>>
WrappedPage == <<FigureBDC, Tj, EMC>>

\* block_idx of the i-th element of elems: its rank on its page
RankOnPage(elems, i) == Cardinality({j \in 1..(i - 1) : elems[j].page = elems[i].page})

\* the element lists of a file of n pages: at most k elements, page by page
ElementLists(n, k, types, texts) ==
    LET choices == [type : types, text : texts, page : 0..(n - 1)]
        lists == UNION {[1..m -> choices] : m \in 0..k}
    IN {[i \in 1..Len(l) |-> [type |-> l[i].type, text |-> l[i].text,
                              page |-> l[i].page, block_idx |-> RankOnPage(l, i)]] :
            l \in {x \in lists : \A i \in 1..(Len(x) - 1) : x[i].page <= x[i + 1].page}}

FigureLists(n, k) ==
    {l \in UNION {[1..m -> [page_num : 0..(n - 1), index : {0}]] : m \in 0..k} :
        \A i \in 1..(Len(l) - 1) : l[i].page_num < l[i + 1].page_num}

HeadingLists == {<<>>, <<[level |-> 1, text |-> SampleText, page |-> 0]>>}

\* an input file of n pages without tags; marked is its MarkInfo.Marked, if any
UntaggedFile(n, contents, marked) ==
    [pages |-> [p \in 1..n |-> Page(contents, NoKey)],
     Root |-> [EmptyCatalog EXCEPT
                 !.MarkInfo = IF IsSome(marked)
                              THEN Some([Marked |-> marked, Suspects |-> None])
                              ELSE None],
     objs |-> <<>>]

\* an input file of n pages another tagger left: a Document element, page p
\* (from 0) with StructParents first_key + p and an empty ParentTree array
TaggedFile(n, contents, first_key) ==
    [pages |-> [p \in 1..n |-> Page(contents, first_key + p - 1)],
     Root |-> [EmptyCatalog EXCEPT
                 !.MarkInfo = Some([Marked |-> Some(TRUE), Suspects |-> None]),
                 !.StructTreeRoot =
                    Some([K |-> <<1>>,
                          Nums |-> [p \in 1..n |-> [key |-> first_key + p - 1,
                                                    arr |-> <<>>]],
                          ParentTreeNextKey |-> Some(first_key + n)])],
     objs |-> <<StructElem("/Document", 0, NoKey, <<>>, None, None)>>]

InputFiles(n) ==
    {UntaggedFile(n, PlainPage, None), UntaggedFile(n, WrappedPage, None),
     UntaggedFile(n, PlainPage, Some(FALSE))}
        \cup {TaggedFile(n, WrappedPage, first_key) : first_key \in {0, 1}}

Opened(f) ==
    /\ pages = f.pages
    /\ Root = f.Root
    /\ objs = f.objs
    /\ existing = [p \in 1..Len(f.pages) |-> <<>>]
    /\ NoToolYet

Init ==
    /\ report = None
    /\ \E n \in 1..MaxPages :
           /\ \E f \in InputFiles(n) : Opened(f)
           /\ elements \in ElementLists(n, MaxDocElems, {"P", "Formula"}, {SampleText})
           /\ figures \in FigureLists(n, MaxFigs)
           /\ headings \in HeadingLists
           /\ title_text = None

Next ==
    \/ CreateBasicStructure
    \/ CreateFullStructure
    \/ TagHeadings
    \/ AddContentTags
    \/ AddAltText

Spec == Init /\ [][Next]_vars

-----------------------------------------------------------------------------
(* SpecAlt: the tools that call the describer, on one-page files whose     *)
(* content is in one /Figure wrapper, with formulas of short and long raw  *)
(* text and with or without a figure.                                      *)

LongText ==
    "x = (-b + sqrt(b^2 - 4ac)) / 2a ; x = (-b + sqrt(b^2 - 4ac)) / 2a ; "
        \o "x = (-b + sqrt(b^2 - 4ac)) / 2a ; x = (-b + sqrt(b^2 - 4ac)) / 2a ; "
        \o "x = (-b + sqrt(b^2 - 4ac)) / 2a ; x = (-b + sqrt(b^2 - 4ac)) / 2a ; "
        \o "x = (-b + sqrt(b^2 - 4ac)) / 2a ; x = (-b + sqrt(b^2 - 4ac)) / 2a ; "

\* raw text of a formula block: shorter than 100, between 100 and 200, and
\* more than 200 characters
FormulaTexts == {Take(LongText, n) : n \in {31, 150, 250}}

AltElementChoices ==
    [type : {"P"}, text : {SampleText}] \cup [type : {"Formula"}, text : FormulaTexts]

InitAlt ==
    /\ Opened(UntaggedFile(1, WrappedPage, None))
    /\ \E k \in 0..MaxElems : elements \in PageElementLists(0, k, AltElementChoices)
    /\ figures \in FigureLists(1, MaxFigs)
    /\ headings = <<>>
    /\ title_text = None
    /\ report = None

NextAlt ==
    \/ CreateFullStructure
    \/ CreateFullStructureAi
    \/ MakeAccessibleTool
    \/ MakeAccessibleCli

SpecAlt == InitAlt /\ [][NextAlt]_vars

-----------------------------------------------------------------------------
(* Properties of the rewritten content stream.                             *)

\* the MCIDs the BDC operators of a stream carry
StreamMcids(ops) == {ops[i].mcid : i \in {j \in 1..Len(ops) :
                        ops[j].operator = "BDC" /\ ops[j].mcid # NoKey}}

\* positions of the BDC operators that carry MCID m
McidSections(ops, m) == {i \in 1..Len(ops) : ops[i].operator = "BDC" /\ ops[i].mcid = m}

\* the leaves whose MCR names page page_num
LeavesOnPage(page_num) ==
    {i \in 1..Len(objs) : IsSome(objs[i].MCR) /\ Get(objs[i].MCR).Pg = page_num}

\* the MCIDs the structure tree references on a page
TreeMcids(page_num) == {Get(objs[i].MCR).MCID : i \in LeavesOnPage(page_num)}

ContentTagged == last.op = "add_content_tags" /\ last.result = "ok"

\* C1: after add_content_tags rewrote a page that has K >= 1 classified
\* elements, the MCIDs the structure tree references on that page are exactly
\* the MCIDs carried by the BDC operators of the page's rewritten stream,
\* whether or not the parsed stream had a /Figure BDC wrapper.
C1_TreeMcidsInStream ==
    ContentTagged =>
        \A p \in rewritten : TreeMcids(p) = StreamMcids(pages[p + 1].Contents)

\* C3: if the marked-content operators of the parsed stream are balanced, the
\* stream add_content_tags writes has as many BDC as EMC and no prefix of it
\* has more EMC than BDC.
C3_BalancedStaysBalanced ==
    ContentTagged =>
        \A p \in rewritten :
            Balanced(existing[p + 1]) => Balanced(pages[p + 1].Contents)

\* C4: after add_content_tags rewrote a page with K classified elements,
\* exactly K BDC operators of the page carry an MCID, no two of them the same
\* MCID, and the tag of the BDC with MCID i is the S of the StructElem whose
\* MCR has MCID i, for any number of /Figure BDC wrappers in the parsed stream.
C4_ExactlyKSections ==
    ContentTagged =>
        \A p \in rewritten :
            LET ops == pages[p + 1].Contents
                K == Len(ElementsOfPage(elements, p))
            IN /\ Cardinality({i \in 1..Len(ops) :
                      ops[i].operator = "BDC" /\ ops[i].mcid # NoKey}) = K
               /\ \A m \in StreamMcids(ops) : Cardinality(McidSections(ops, m)) = 1
               /\ \A e \in LeavesOnPage(p) :
                      \A i \in McidSections(ops, Get(objs[e].MCR).MCID) :
                          ops[i].tag = objs[e].S

\* position of the EMC that closes the BDC at position i (0 if none)
MatchingEMC(ops, i) ==
    LET closers == {j \in (i + 1)..Len(ops) :
                        ops[j].operator = "EMC" /\ Depth(ops, j) = Depth(ops, i - 1)}
    IN IF closers = {} THEN 0 ELSE CHOOSE j \in closers : \A k \in closers : j <= k

\* positions of the /Figure BDC operators and of their matching EMC
WrapperPositions(ops) ==
    LET figs == {i \in 1..Len(ops) : ops[i].operator = "BDC" /\ ops[i].tag = "/Figure"}
    IN figs \cup {MatchingEMC(ops, i) : i \in figs}

\* the operators at the positions from..Len(ops) that are not in drop, in order
RECURSIVE Without(_, _, _)
Without(ops, drop, from) ==
    IF from > Len(ops) THEN <<>>
    ELSE (IF from \in drop THEN <<>> ELSE <<ops[from]>>) \o Without(ops, drop, from + 1)

\* the operators of the written stream that were copied from the parsed one
Copied(ops) == SelectSeq(ops, LAMBDA o : o.src = "in")

\* C5: for every rewritten page (whose parsed stream is balanced), the
\* operators other than the replaced /Figure BDC and their matching EMC are
\* the same, with the same operands and in the same order, in the parsed and
\* in the written stream, once the per-element BDC/EMC the rewriter appended
\* are set aside.
C5_OtherOperatorsPreserved ==
    ContentTagged =>
        \A p \in rewritten :
            Balanced(existing[p + 1]) =>
                Copied(pages[p + 1].Contents)
                    = Without(existing[p + 1], WrapperPositions(existing[p + 1]), 1)

-----------------------------------------------------------------------------
(* Properties of the structure tree the tools write.                       *)

\* the last tool wrote its output file
FileWritten == last.op # "none" /\ last.result = "ok"

\* the ParentTree arrays stored under key k
ParentTreeEntries(k) ==
    LET nums == Get(Root.StructTreeRoot).Nums
    IN {nums[i].arr : i \in {j \in 1..Len(nums) : nums[j].key = k}}

\* the StructElems whose MCR has Pg = page_num and MCID = mcid
ElemsWithMcr(page_num, mcid) ==
    {e \in 1..Len(objs) : objs[e].MCR = Some([Pg |-> page_num, MCID |-> mcid])}

\* C2: after add_content_tags, for every page that has a StructParents key k,
\* the ParentTree has one entry for key k, an array as long as the page has
\* classified elements, whose i-th element is the one StructElem whose MCR
\* has Pg = that page and MCID = i.
C2_ParentTreeMatchesPages ==
    ContentTagged =>
        \A p \in 1..Len(pages) :
            pages[p].StructParents # NoKey =>
                /\ Cardinality(ParentTreeEntries(pages[p].StructParents)) = 1
                /\ \A arr \in ParentTreeEntries(pages[p].StructParents) :
                      /\ Len(arr) = Len(ElementsOfPage(elements, p - 1))
                      /\ \A i \in 1..Len(arr) : ElemsWithMcr(p - 1, i - 1) = {arr[i]}

LeafRoles == {"/H1", "/H2", "/H3", "/P", "/Formula", "/Figure"}

\* C6: in every file a tool wrote, every StructElem of a leaf role (the
\* Figure elements of inject_alt_text and the heading elements of
\* add_heading_tags included) has one MCR, and the MCID of that MCR is carried
\* by a BDC operator of the content stream of the page the MCR names.
C6_LeafHasMcrInStream ==
    FileWritten =>
        \A e \in 1..Len(objs) :
            objs[e].S \in LeafRoles =>
                /\ IsSome(objs[e].MCR)
                /\ Get(objs[e].MCR).Pg \in 0..(Len(pages) - 1)
                /\ Get(objs[e].MCR).MCID
                      \in StreamMcids(pages[Get(objs[e].MCR).Pg + 1].Contents)

\* C7: after any sequence of create_basic_structure, create_full_structure,
\* tag_headings, add_content_tags and inject_alt_text on any input file, if
\* the written file has a StructElem then MarkInfo.Marked is true and the
\* catalog has a StructTreeRoot.
C7_MarkedWhenStructElems ==
    (FileWritten /\ Len(objs) > 0) =>
        /\ IsSome(Root.MarkInfo)
        /\ Get(Root.MarkInfo).Marked = Some(TRUE)
        /\ IsSome(Root.StructTreeRoot)

-----------------------------------------------------------------------------
(* Properties of the alternate texts.                                      *)

\* C8: in every file a tool wrote, every StructElem of role Figure or
\* Formula has an Alt of at least one character, whatever the describer
\* returned, whether it failed, and whatever max_ai_formulas was.
C8_AltPresent ==
    FileWritten =>
        \A e \in 1..Len(objs) :
            objs[e].S \in {"/Figure", "/Formula"} =>
                IsSome(objs[e].Alt) /\ Len(Get(objs[e].Alt)) >= 1

\* the describer calls of the last tool that did not return a description
FailedCalls == {i \in 1..Len(calls) : calls[i].result # "described"}

\* C9: make_accessible and create_full_structure with AI descriptions write
\* their output file whatever describer calls failed (missing API key, error
\* of the vision model, region that cannot be rendered).
C9_DescriberFailureRecovered ==
    (last.op \in {"make_accessible", "cli_make_accessible", "create_full_structure"}
        /\ FailedCalls # {}) => last.result = "ok"

\* the describer returned a description for the element with this key
Described(kind, key) ==
    \E i \in 1..Len(calls) :
        calls[i].kind = kind /\ calls[i].key = key /\ calls[i].result = "described"

\* the Formula elements that add_content_tags tagged without a description
\* (the describer failed for them, or was not called)
UndescribedFormulas ==
    {i \in Formulas(elements) : ~Described("formula", DescKey(elements[i]))}

\* the figures for which the describer was called and failed
FailedFigures ==
    {i \in 1..Len(figures) :
        \E c \in FailedCalls :
            calls[c].kind = "figure"
                /\ calls[c].key = <<figures[i].page_num, figures[i].index>>}

\* the Figure element the last inject_alt_text appended for the i-th figure
FigureElemOf(i) == Len(objs) - Len(figures) + i

\* C10: in the file a tool wrote, a Formula for which the describer failed or
\* no description is available has the Alt "Mathematical formula: " followed
\* by the first 100 characters of the block's raw text, and a Figure for which
\* the describer failed has the Alt "[alt text unavailable]".
C10_FallbackAlt ==
    FileWritten =>
        /\ rewritten # {} =>
              \A i \in UndescribedFormulas :
                  \A e \in ElemsWithMcr(elements[i].page, elements[i].block_idx) :
                      objs[e].Alt = Some("Mathematical formula: "
                                            \o Take(elements[i].text, 100))
        /\ \A i \in FailedFigures :
              objs[FigureElemOf(i)].Alt = Some("[alt text unavailable]")

-----------------------------------------------------------------------------
(* Properties of the catalog the pipeline writes.                          *)

PipelineOps == {"create_full_structure", "make_accessible", "cli_make_accessible"}

\* the file has no text block and no figure
EmptyPdf == elements = <<>> /\ headings = <<>> /\ figures = <<>>

\* C11: for a PDF with no text blocks and no figures, create_full_structure
\* and make_accessible write a catalog whose StructTreeRoot has one child, a
\* Document StructElem without children, with MarkInfo.Marked true and a
\* ParentTree without entries.
C11_EmptyPdfCatalog ==
    (FileWritten /\ last.op \in PipelineOps /\ EmptyPdf) =>
        /\ IsSome(Root.MarkInfo)
        /\ Get(Root.MarkInfo).Marked = Some(TRUE)
        /\ IsSome(Root.StructTreeRoot)
        /\ Get(Root.StructTreeRoot).Nums = <<>>
        /\ Len(Get(Root.StructTreeRoot).K) = 1
        /\ objs[Get(Root.StructTreeRoot).K[1]].S = "/Document"
        /\ objs[Get(Root.StructTreeRoot).K[1]].K = <<>>

-----------------------------------------------------------------------------
(* SpecFinal: the tools that finalise the catalog and the pages            *)
(* (create_full_structure, make_accessible, fix_link_alt_texts), on files  *)
(* whose pages carry annotations and Tabs keys and whose catalog another   *)
(* tool may have written.                                                  *)

\* tool fix_link_alt_texts: add_link_alt_texts(path, path)
FixLinkAltTexts ==
    /\ Run
    /\ pages' = add_link_alt_texts(pages).pages
    /\ UNCHANGED <<Root, objs>>
    /\ NothingRewritten
    /\ calls' = <<>>
    /\ last' = [op |-> "fix_link_alt_texts", result |-> "ok"]
    /\ InPlace

Annotation(subtype, contents, uri) ==
    [Subtype |-> subtype, Contents |-> contents, URI |-> uri]

\* the annotations and the Tabs key a page of an input file may carry
PageKinds ==
    LET SampleUri == "https://www.example.com/docs/" IN
    {[Annots |-> None, Tabs |-> None],
     [Annots |-> None, Tabs |-> Some("/R")],
     [Annots |-> Some(<<>>), Tabs |-> None],
     [Annots |-> Some(<<Annotation("/Link", None, Some(SampleUri))>>), Tabs |-> None],
     [Annots |-> Some(<<Annotation("/Link", Some("Documentation"), Some(SampleUri)),
                        Annotation("/Link", Some(""), None)>>),
      Tabs |-> Some("/R")],
     [Annots |-> Some(<<Annotation("/Widget", None, None)>>), Tabs |-> Some("/S")]}

\* the file f with the annotations and Tabs keys of kinds on its pages
WithPageKinds(f, kinds) ==
    [f EXCEPT !.pages = [p \in 1..Len(f.pages) |->
                            [f.pages[p] EXCEPT !.Annots = kinds[p].Annots,
                                               !.Tabs = kinds[p].Tabs]]]

\* untagged files, tagged files and tagged files of another tool; the first
\* page is of any kind, a later page has Tabs /R
InitFinal ==
    /\ \E n \in 1..MaxPages :
        LET ForeignCatalog(f) ==
                [f EXCEPT
                    !.Root.MarkInfo = Some([Marked |-> Some(TRUE), Suspects |-> Some(TRUE)]),
                    !.Root.Lang = Some("fr-FR"),
                    !.Root.ViewerPreferences = Some([DisplayDocTitle |-> Some(FALSE)]),
                    !.Root.Metadata = Some([title |-> "Rapport", lang |-> "fr-FR"])]
        IN
        /\ \E f \in {UntaggedFile(n, PlainPage, None), TaggedFile(n, WrappedPage, 0),
                     ForeignCatalog(TaggedFile(n, WrappedPage, 0))} :
            \E kinds \in {k \in [1..n -> PageKinds] :
                            \A p \in 2..n : k[p].Tabs = Some("/R")} :
              Opened(WithPageKinds(f, kinds))
        /\ figures \in FigureLists(1, MaxFigs)
    /\ elements = <<>>
    /\ headings = <<>>
    /\ title_text \in {None, Some(SampleText)}
    /\ report = None

NextFinal ==
    \/ CreateFullStructure
    \/ MakeAccessibleTool
    \/ MakeAccessibleCli
    \/ FixLinkAltTexts

SpecFinal == InitFinal /\ [][NextFinal]_vars

\* C12: after make-accessible finished on any input file (tagged or not,
\* with or without figures, by the CLI or the tool), the catalog has
\* MarkInfo = {Marked true, Suspects false} and a Lang, whatever MarkInfo and
\* Lang the input had.
C12_MarkInfoAndLangAfterMakeAccessible ==
    (last.op \in {"make_accessible", "cli_make_accessible"} /\ last.result = "ok") =>
        /\ Root.MarkInfo = Some([Marked |-> Some(TRUE), Suspects |-> Some(FALSE)])
        /\ IsSome(Root.Lang)

\* C13: a run of make-accessible on the file a first run of make-accessible
\* wrote leaves MarkInfo, Lang, ViewerPreferences, Metadata (dc:title
\* included, the XMP dates aside), the Tabs of every page and the Contents of
\* every annotation as the first run wrote them.
C13_SecondRunChangesNothing ==
    [][(/\ last.op \in {"make_accessible", "cli_make_accessible"}
        /\ last.result = "ok"
        /\ last' = last) =>
            /\ Root'.MarkInfo = Root.MarkInfo
            /\ Root'.Lang = Root.Lang
            /\ Root'.ViewerPreferences = Root.ViewerPreferences
            /\ Root'.Metadata = Root.Metadata
            /\ \A p \in 1..Len(pages) :
                  /\ pages'[p].Tabs = pages[p].Tabs
                  /\ pages'[p].Annots = pages[p].Annots]_vars

\* C14: a run of create_full_structure (alone or in make_accessible) leaves
\* every page that has a non-empty Annots array with Tabs = /S whatever Tabs
\* it had, leaves the Tabs of the pages without annotations as it was, and
\* the count add_page_tabs_key returns is the number of pages whose Tabs it
\* set.
C14_TabsOnAnnotatedPages ==
    [][(last'.op \in {"create_full_structure", "make_accessible"} /\ last'.result = "ok") =>
          /\ \A p \in 1..Len(pages) :
                IF has_annotations(pages[p])
                THEN pages'[p].Tabs = Some("/S")
                ELSE pages'[p].Tabs = pages[p].Tabs
          /\ add_page_tabs_key(pages).modified_count
                = Cardinality({p \in 1..Len(pages) : pages'[p].Tabs # pages[p].Tabs})]_vars

-----------------------------------------------------------------------------
(* SpecLinks: fix_link_alt_texts on a page of 1..MaxAnnots link            *)
(* annotations, with and without Contents, over URIs of every form.        *)

InitLinks ==
    /\ \E n \in 1..MaxAnnots :
        LET LinkUris ==
                {"mailto:alice@example.com", "https://www.example.org/docs/intro",
                 "http://example.com", "https://example.com/", "tel:+15551234",
                 "ftp://example.com/pub/file.txt",
                 "ftp://files.example.com/pub/releases/2024/archive-of-everything.tar.gz",
                 "https://example.com/share?to=mailto:bob@example.com",
                 "ftp://example.com/http-archive", "http://docs.www.example.com/x",
                 "#section-2"} IN
        \E annots \in [1..n -> {Annotation("/Link", contents, uri) :
                                    contents \in {None, Some("Documentation")},
                                    uri \in {None} \cup {Some(u) : u \in LinkUris}}] :
          Opened(WithPageKinds(UntaggedFile(1, PlainPage, None),
                               <<[Annots |-> Some(annots), Tabs |-> None]>>))
    /\ elements = <<>>
    /\ headings = <<>>
    /\ figures = <<>>
    /\ title_text = None
    /\ report = None

NextLinks == FixLinkAltTexts

SpecLinks == InitLinks /\ [][NextLinks]_vars

\* C16: the Contents add_link_alt_texts writes for a link annotation without
\* Contents is "Email link to <addr>" exactly for a URI mailto:<addr>,
\* "Link to <path> on <host>" ("Link to <host>" for an empty path) with only
\* a leading "www." taken off the host exactly for a URI http(s)://host/path,
\* "Link: " and the first 50 characters for every other URI, and "Link" for
\* an annotation without a URI.
C16_ContentsFollowRuleTable ==
    [][last'.op = "fix_link_alt_texts" =>
        \A p \in 1..Len(pages) : \A a \in 1..Len(Get(pages[p].Annots)) :
            LET annot == Get(pages[p].Annots)[a]
                uri == Get(annot.URI)
                after_scheme == IF Take(uri, 7) = "http://" THEN SubSeq(uri, 8, Len(uri))
                                ELSE SubSeq(uri, 9, Len(uri))
                host_end == first_of(after_scheme, {"/", "?", "#"}, 1)
                full_host == SubSeq(after_scheme, 1, host_end - 1)
                host == IF Take(full_host, 4) = "www."
                        THEN SubSeq(full_host, 5, Len(full_host)) ELSE full_host
                rest == SubSeq(after_scheme, host_end, Len(after_scheme))
                path == strip(SubSeq(rest, 1, first_of(rest, {"?", "#"}, 1) - 1), {"/"})
                expected ==
                    IF ~IsSome(annot.URI) THEN "Link"
                    ELSE IF Take(uri, 7) = "mailto:"
                    THEN "Email link to " \o SubSeq(uri, 8, Len(uri))
                    ELSE IF Take(uri, 7) = "http://" \/ Take(uri, 8) = "https://"
                    THEN IF Len(path) > 0 THEN "Link to " \o path \o " on " \o host
                         ELSE "Link to " \o host
                    ELSE "Link: " \o Take(uri, 50)
            IN (annot.Subtype = "/Link" /\ ~IsSome(annot.Contents)) =>
                    Get(pages'[p].Annots)[a].Contents = Some(expected)]_vars

-----------------------------------------------------------------------------
(* The validator: run_verapdf, parse_verapdf_xml and the MorphMind score.  *)
(* A Python value that may be None, an int or a str is a record            *)
(* [kind, n, s], so that "11" and 11 are different values.                 *)

MaxPassed == 20     \* passedRules of a report
MaxFailed == 10     \* failedRules of a report
MaxCritical == 7    \* failed rules of one severity in a report

CLAUSE_SEVERITY ==
    [c \in {"6.1", "6.2", "7.18.6"} |-> "critical"]
        @@ [c \in {"7.1", "7.2", "7.3", "7.18", "7.18.1", "7.18.5", "7.18.7",
                   "7.21", "7.21.7"} |-> "serious"]
        @@ [c \in {"7.4", "7.5", "7.6", "7.7", "7.8", "7.9", "7.10", "7.11",
                   "7.12", "7.13", "7.14", "7.15", "7.16", "7.17", "7.18.4",
                   "7.19", "7.20", "default"} |-> "moderate"]

\* keys are (clause, test) with an int test
TEST_SEVERITY_OVERRIDES ==
    [k \in {<<"7.1", 1>>, <<"7.1", 2>>, <<"7.1", 3>>, <<"7.1", 11>>} |-> "critical"]
        @@ [k \in {<<"7.1", 8>>, <<"7.2", 34>>, <<"7.18.5", 1>>, <<"7.18.5", 2>>}
                |-> "serious"]
        @@ [k \in {<<"7.1", 10>>, <<"7.2", 2>>, <<"7.18.3", 1>>} |-> "moderate"]

\* the parent-clause loop of get_severity_for_failure
RECURSIVE parent_severity(_)
parent_severity(clause) ==
    LET dots == {i \in 1..Len(clause) : SubSeq(clause, i, i) = "."} IN
    IF dots = {} THEN CLAUSE_SEVERITY["default"]
    ELSE LET parent == SubSeq(clause, 1, (CHOOSE i \in dots : \A j \in dots : j <= i) - 1)
         IN IF parent \in DOMAIN CLAUSE_SEVERITY THEN CLAUSE_SEVERITY[parent]
            ELSE parent_severity(parent)

get_severity_for_failure(clause, test) ==
    IF test.kind = "int" /\ <<clause, test.n>> \in DOMAIN TEST_SEVERITY_OVERRIDES
    THEN TEST_SEVERITY_OVERRIDES[<<clause, test.n>>]
    ELSE IF clause \in DOMAIN CLAUSE_SEVERITY THEN CLAUSE_SEVERITY[clause]
    ELSE parent_severity(clause)

\* the score left as computed
score_not_clamped(score) == score

\* score = max(0, min(100, score))
score_in_range(score) == IF score < 0 THEN 0 ELSE Min(100, score)

\* "Determine grade"
grade(score) ==
    IF score >= 90 THEN "A" ELSE IF score >= 80 THEN "B"
    ELSE IF score >= 70 THEN "C" ELSE IF score >= 60 THEN "D" ELSE "F"

\* calculate_morphmind_score: base_score - severity_penalty is the fraction
\* num / den (the penalty counted in halves), int() truncates it toward zero
calculate_morphmind_score(passed_rules, failed_rules, failures) ==
    LET severity == [i \in 1..Len(failures) |->
                        get_severity_for_failure(failures[i].clause, failures[i].test)]
        issues_by_severity ==
            [sev \in {"critical", "serious", "moderate", "minor"} |->
                Cardinality({i \in 1..Len(failures) : severity[i] = sev})]
        total_rules == passed_rules + failed_rules
        penalty_halves == Min(100, 16 * issues_by_severity["critical"]
                                    + 8 * issues_by_severity["serious"]
                                    + 3 * issues_by_severity["moderate"]
                                    + issues_by_severity["minor"])
        num == IF total_rules > 0 THEN 200 * passed_rules - penalty_halves * total_rules
               ELSE 200 - penalty_halves
        den == IF total_rules > 0 THEN 2 * total_rules ELSE 2
        score == score_in_range(IF num >= 0 THEN num \div den ELSE -((-num) \div den))
        weight == [i \in 1..Len(failures) |->
                      CASE severity[i] = "critical" -> 10
                        [] severity[i] = "serious" -> 7
                        [] severity[i] = "moderate" -> 3
                        [] OTHER -> 1]
        lower(t) == LET Upper == "ABCDEFGHIJKLMNOPQRSTUVWXYZ"
                        Lower == "abcdefghijklmnopqrstuvwxyz"
                        RECURSIVE lower_from(_)
                        lower_from(i) ==
                            IF i > Len(t) THEN ""
                            ELSE (IF find_from(Upper, SubSeq(t, i, i), 1) # 0
                                  THEN LET k == find_from(Upper, SubSeq(t, i, i), 1)
                                       IN SubSeq(Lower, k, k)
                                  ELSE SubSeq(t, i, i)) \o lower_from(i + 1)
                    IN lower_from(1)
        \* the category a failure is counted against, "" when there is none
        category(failure) ==
            LET clause == failure.clause
                message == lower(failure.message)
                dot == find_from(clause, ".", 1)
                clause_prefix == IF dot = 0 THEN clause ELSE SubSeq(clause, 1, dot - 1)
            IN IF clause_prefix \in {"6", "7.1"}
               THEN IF contains(message, "structure") \/ contains(message, "marked")
                    THEN "structure"
                    ELSE IF contains(message, "metadata") \/ contains(message, "xmp")
                    THEN "metadata"
                    ELSE ""
               ELSE IF clause_prefix = "7.2" \/ contains(message, "language")
               THEN "language"
               ELSE IF contains(clause, "7.18")
               THEN IF contains(message, "figure") \/ contains(message, "alt")
                    THEN "figures"
                    ELSE IF contains(message, "link") THEN "links"
                    ELSE ""
               ELSE IF contains(clause, "7.21") \/ contains(message, "font")
               THEN "fonts"
               ELSE ""
        RECURSIVE category_scores_from(_, _)
        category_scores_from(i, scores) ==
            IF i > Len(failures) THEN scores
            ELSE LET cat == category(failures[i])
                 IN category_scores_from(i + 1,
                        IF cat = "" THEN scores
                        ELSE [scores EXCEPT ![cat] =
                                 IF @ - weight[i] * 5 < 0 THEN 0 ELSE @ - weight[i] * 5])
        category_scores ==
            category_scores_from(1, [cat \in {"structure", "language", "figures", "links",
                                              "fonts", "metadata"} |-> 100])
    IN [score |-> score, category_scores |-> category_scores, grade |-> grade(score), passed_rules |-> passed_rules,
        failed_rules |-> failed_rules, issues_by_severity |-> issues_by_severity,
        top_issues |-> [i \in 1..Len(failures) |->
                            [clause |-> failures[i].clause, test |-> failures[i].test,
                             severity |-> severity[i]]]]

\* int(s) of a string of decimal digits
RECURSIVE int(_)
int(s) ==
    IF Len(s) = 0 THEN 0
    ELSE 10 * int(SubSeq(s, 1, Len(s) - 1))
            + (CHOOSE d \in 0..9 : SubSeq("0123456789", d + 1, d + 1) = SubSeq(s, Len(s), Len(s)))

\* parse_verapdf_xml: the summary and the failed rules of the report
parse_verapdf_xml(xml) ==
    LET failed == SelectSeq(xml.rules, LAMBDA rule : rule.status = "failed") IN
    [summary |-> [passed_rules |-> xml.passedRules, failed_rules |-> xml.failedRules],
     failures |-> [i \in 1..Len(failed) |->
                     [clause |-> failed[i].clause, description |-> failed[i].description,
                      test_number |-> [kind |-> "str", n |-> 0, s |-> failed[i].testNumber]]]]

\* run_verapdf: how the call ends, how often the validator was launched, and
\* the parsed report; found: find_verapdf finds an executable, exists:
\* os.path.exists(pdf_path)
run_verapdf(found, exists, profile, xml) ==
    LET valid_profiles == {"ua1", "ua2", "1a", "1b", "2a", "2b", "3a", "3b", "4", "4e", "4f"} IN
    IF ~found THEN [outcome |-> "raised", launches |-> 0]
    ELSE IF profile \notin valid_profiles THEN [outcome |-> "error", launches |-> 0]
    ELSE IF ~exists THEN [outcome |-> "error", launches |-> 0]
    ELSE [outcome |-> "parsed", launches |-> 1, parsed |-> parse_verapdf_xml(xml)]

\* failures_for_score of validate_pdfua and /agent/validate
failures_for_score(failures) ==
    [i \in 1..Len(failures) |->
        [clause |-> failures[i].clause, test |-> failures[i].test_number,
         message |-> failures[i].description]]

\* calculate_morphmind_score on the failures parse_verapdf_for_score reads
\* from the text of a report: the test number is an int, or None
CalculateScore ==
    /\ validated.op = "none"
    /\ validated' =
        [op |-> "calculate_morphmind_score",
         morphmind |->
            calculate_morphmind_score(report.passedRules, report.failedRules,
                [i \in 1..Len(report.rules) |->
                    [clause |-> report.rules[i].clause,
                     message |-> report.rules[i].description,
                     test |-> IF Len(report.rules[i].testNumber) > 0
                              THEN [kind |-> "int", n |-> int(report.rules[i].testNumber),
                                    s |-> ""]
                              ELSE [kind |-> "none", n |-> 0, s |-> ""]]])]
    /\ UNCHANGED <<pages, Root, objs, elements, headings, figures, existing, rewritten,
                   calls, last, runs, stem, title_text, report, http>>

\* tool validate_pdfua, POST /agent/validate
ValidatePdfua ==
    /\ validated.op = "none"
    /\ \E found \in BOOLEAN, exists \in BOOLEAN, profile \in {"ua1", "4f", "ua3"} :
        LET result == run_verapdf(found, exists, profile, report) IN
        validated' =
            IF result.outcome # "parsed"
            THEN [op |-> "validate_pdfua", profile |-> profile, exists |-> exists,
                  outcome |-> result.outcome, launches |-> result.launches]
            ELSE [op |-> "validate_pdfua", profile |-> profile, exists |-> exists,
                  outcome |-> result.outcome, launches |-> result.launches,
                  morphmind |->
                     calculate_morphmind_score(result.parsed.summary.passed_rules,
                         result.parsed.summary.failed_rules,
                         failures_for_score(result.parsed.failures))]
    /\ UNCHANGED <<pages, Root, objs, elements, headings, figures, existing, rewritten,
                   calls, last, runs, stem, title_text, report, http>>

\* the rule lists of a report: up to MaxCritical critical, 2 serious and 1
\* moderate failure, and the lists of one or two rules with and without an
\* override, of a clause known by its parent only, of an unknown clause
ReportRules ==
    LET FailedRules(n, clause, testNumber) ==
            [i \in 1..n |-> [clause |-> clause, testNumber |-> testNumber,
                              description |-> "", status |-> "failed"]]
        Rule(clause, testNumber) ==
            [clause |-> clause, testNumber |-> testNumber, description |-> "",
             status |-> "failed"] IN
    {FailedRules(c, "6.2", "1") \o FailedRules(s, "7.2", "1") \o FailedRules(m, "7.4", "1") :
        c \in 0..MaxCritical, s \in 0..2, m \in 0..1}
    \cup UNION {[1..n -> {Rule("7.1", t) : t \in {"11", "10", "5", ""}}
                         \cup {Rule("7.18.2", "1"), Rule("9.9", "3"),
                               [Rule("7.1", "11") EXCEPT !.status = "passed"]}] :
                n \in 1..2}

InitValidate ==
    /\ Opened(UntaggedFile(1, PlainPage, None))
    /\ elements = <<>>
    /\ headings = <<>>
    /\ figures = <<>>
    /\ title_text = None
    /\ \E passed \in 0..MaxPassed, failed \in 0..MaxFailed, rules \in ReportRules :
          report = [passedRules |-> passed, failedRules |-> failed, rules |-> rules]

NextValidate ==
    \/ CalculateScore
    \/ ValidatePdfua

SpecValidate == InitValidate /\ [][NextValidate]_vars

\* reports of one or two failed rules with the descriptions veraPDF gives
InitCategories ==
    LET Rule(clause, testNumber, description) ==
            [clause |-> clause, testNumber |-> testNumber, description |-> description,
             status |-> "failed"]
        Rules == {Rule("7.1", "3", "Content is not marked as Artifact or tagged"),
                  Rule("7.1", "8", "The XMP metadata stream is missing"),
                  Rule("6.2", "1", "The Structure tree root is missing"),
                  Rule("6.2", "1", "No pdfuaid in the XMP packet"),
                  Rule("7.2", "2", "Lang entry is missing"),
                  Rule("7.2", "34", "Natural language cannot be determined"),
                  Rule("7.18.1", "2", "Figure without Alt text"),
                  Rule("7.18.5", "1", "Link annotation is not nested"),
                  Rule("7.21.4", "1", "The font program is not embedded"),
                  Rule("9.9", "3", "Unknown rule")}
    IN /\ Opened(UntaggedFile(1, PlainPage, None))
       /\ elements = <<>>
       /\ headings = <<>>
       /\ figures = <<>>
       /\ title_text = None
       /\ \E passed \in {0, MaxPassed}, n \in 1..2 : \E rules \in [1..n -> Rules] :
             report = [passedRules |-> passed, failedRules |-> n, rules |-> rules]

SpecCategories == InitCategories /\ [][NextValidate]_vars

\* C17: the score of every validation is clamp(0, 100, round(base_score -
\* penalty)) with base_score = 100 * passed_rules / (passed_rules +
\* failed_rules) (100 without rules) and penalty = min(50, 8 critical + 4
\* serious + 1.5 moderate + 0.5 minor): the score is the clamped integer
\* nearest to base_score - penalty (either neighbour at a tie); passed 20,
\* failed 10, one critical and two serious failures give 51 and grade F.
C17_ScoreIsRoundedAndClamped ==
    ("morphmind" \in DOMAIN validated) =>
        LET m == validated.morphmind
            total == m.passed_rules + m.failed_rules
            penalty_halves == Min(100, 16 * m.issues_by_severity["critical"]
                                        + 8 * m.issues_by_severity["serious"]
                                        + 3 * m.issues_by_severity["moderate"]
                                        + m.issues_by_severity["minor"])
            num == IF total > 0 THEN 200 * m.passed_rules - penalty_halves * total
                   ELSE 200 - penalty_halves
            den == IF total > 0 THEN 2 * total ELSE 2
        IN /\ \E r \in -50..100 :
                /\ 2 * (r * den - num) <= den
                /\ 2 * (num - r * den) <= den
                /\ m.score = (IF r < 0 THEN 0 ELSE r)
           /\ (/\ m.passed_rules = 20
               /\ m.failed_rules = 10
               /\ m.issues_by_severity
                    = [critical |-> 1, serious |-> 2, moderate |-> 0, minor |-> 0])
                => m.score = 51 /\ m.grade = "F"

\* C18: whatever the rule counts and the failures, the score of a validation
\* is an integer of 0..100 and its grade is A from 90, B from 80, C from 70,
\* D from 60 and F below, so that a higher score never has a worse grade.
C18_ScoreInRangeGradeMonotone ==
    ("morphmind" \in DOMAIN validated) =>
        LET m == validated.morphmind
            rank == [g \in {"A", "B", "C", "D", "F"} |->
                        IF g = "A" THEN 4 ELSE IF g = "B" THEN 3
                        ELSE IF g = "C" THEN 2 ELSE IF g = "D" THEN 1 ELSE 0]
        IN /\ m.score \in 0..100
           /\ m.grade = "A" <=> m.score >= 90
           /\ m.grade = "B" <=> m.score \in 80..89
           /\ m.grade = "C" <=> m.score \in 70..79
           /\ m.grade = "D" <=> m.score \in 60..69
           /\ m.grade = "F" <=> m.score < 60
           /\ \A lower \in 0..m.score : rank[grade(lower)] <= rank[m.grade]

\* a validation whose base_score - penalty was negative (no passed rule, the
\* penalty at its cap) returned the score 0
C18_ClampedScoreReached ==
    /\ "morphmind" \in DOMAIN validated
    /\ validated.morphmind.passed_rules = 0
    /\ validated.morphmind.failed_rules > 0
    /\ validated.morphmind.issues_by_severity["critical"] = MaxCritical
    /\ validated.morphmind.score = 0
    /\ validated.morphmind.grade = "F"

\* C19: in a validation by validate_pdfua (parse_verapdf_xml, then
\* calculate_morphmind_score), every failure whose clause and test number
\* are in the override table has the severity of the override, not that of
\* its clause: clause 7.1 test 11 is critical, clause 7.1 test 10 moderate.
C19_OverrideSeverityApplied ==
    (validated.op = "validate_pdfua" /\ validated.outcome = "parsed") =>
        \A i \in 1..Len(validated.morphmind.top_issues) :
            LET issue == validated.morphmind.top_issues[i]
                key == <<issue.clause, int(issue.test.s)>>
            IN (issue.test.kind = "str" /\ Len(issue.test.s) > 0
                    /\ key \in DOMAIN TEST_SEVERITY_OVERRIDES) =>
                        issue.severity = TEST_SEVERITY_OVERRIDES[key]

\* C20: a call of run_verapdf with a profile outside ua1, ua2, 1a, 1b, 2a,
\* 2b, 3a, 3b, 4, 4e, 4f returns an error result and does not launch the
\* validator; a call with a profile of the list and an existing file
\* launches it exactly once.
C20_ProfileCheckedBeforeLaunch ==
    validated.op = "validate_pdfua" =>
        IF validated.profile \in {"ua1", "ua2", "1a", "1b", "2a", "2b", "3a", "3b",
                                  "4", "4e", "4f"}
        THEN validated.exists => validated.launches = 1
        ELSE validated.outcome = "error" /\ validated.launches = 0

-----------------------------------------------------------------------------
(* detect_content_elements. A document is the sequence, page by page, of   *)
(* the blocks page.get_text("dict") returns: an image block, or a text     *)
(* block of one span [text, size, bold]; sizes are whole points, for which *)
(* the float products median_size * 1.5, * 1.25 and * 1.1 compare as the   *)
(* exact ones.                                                             *)

MaxBlocks == 2      \* blocks of the first page of a document

\* the formula test of detect_content_elements on the stripped block text
is_formula(block_text) ==
    LET chars == [i \in 1..Len(block_text) |-> SubSeq(block_text, i, i)]
        in_set(i, s) == \E j \in 1..Len(s) : SubSeq(s, j, j) = chars[i]
        digit(i) == in_set(i, "0123456789")
        space(i) == chars[i] \in Whitespace
        has_math_chars == \E i \in 1..Len(chars) : in_set(i, "[](){}")
        alpha_count == Cardinality({i \in 1..Len(chars) :
                          in_set(i, "abcdefghijklmnopqrstuvwxyzABCDEFGHIJKLMNOPQRSTUVWXYZ")})
        total_chars == Cardinality({i \in 1..Len(chars) : chars[i] # " "})
    IN \/ has_math_chars /\ total_chars > 0 /\ 10 * alpha_count < 6 * total_chars
       \/ has_math_chars /\ Len(chars) < 30
       \/ \E i \in 1..(Len(chars) - 1) :
             in_set(i, "[(") /\ (digit(i + 1) \/ in_set(i + 1, ",.") \/ space(i + 1))
       \/ /\ Len(chars) < 50
          /\ Len(chars) > 0
          /\ \A i \in 1..Len(chars) : digit(i) \/ space(i) \/ in_set(i, ",.-+*/=<>")

\* the heading tests of detect_content_elements, tried in the order of common
tests_in_other_order(block_text, max_size, is_bold, median_size) ==
    IF is_formula(block_text) THEN "Formula"
    ELSE IF 10 * max_size >= 11 * median_size /\ Len(block_text) < 200 THEN "H3"
    ELSE IF 4 * max_size >= 5 * median_size /\ Len(block_text) < 200 THEN "H2"
    ELSE IF 2 * max_size >= 3 * median_size /\ Len(block_text) < 200 THEN "H1"
    ELSE IF is_bold /\ max_size >= median_size /\ Len(block_text) < 100 THEN "H3"
    ELSE "P"

\* "Classify the block": element_type
element_type(block_text, max_size, is_bold, median_size) ==
    IF is_formula(block_text) THEN "Formula"
    ELSE IF 2 * max_size >= 3 * median_size /\ Len(block_text) < 200 THEN "H1"
    ELSE IF 4 * max_size >= 5 * median_size /\ Len(block_text) < 200 THEN "H2"
    ELSE IF 10 * max_size >= 11 * median_size /\ Len(block_text) < 200 THEN "H3"
    ELSE IF is_bold /\ max_size >= median_size /\ Len(block_text) < 100 THEN "H3"
    ELSE "P"

\* all_font_sizes[len(all_font_sizes) // 2] of the sorted sizes of the spans
\* whose stripped text has more than 2 characters; 0 when there is none
median_size(doc) ==
    LET spans == {<<p, b>> \in (1..Len(doc)) \X (1..(MaxBlocks + 3)) :
                    /\ b <= Len(doc[p])
                    /\ ~doc[p][b].image
                    /\ Len(strip(doc[p][b].text, Whitespace)) > 2}
        size(s) == doc[s[1]][s[2]].size
        below(v) == Cardinality({s \in spans : size(s) < v})
        upto(v) == Cardinality({s \in spans : size(s) <= v})
    IN IF spans = {} THEN 0
       ELSE CHOOSE v \in {size(s) : s \in spans} :
                below(v) <= Cardinality(spans) \div 2 /\ Cardinality(spans) \div 2 < upto(v)

\* the elements of the blocks of page page_num (from 0) from block b on; an
\* image block, an empty block and a page number are skipped
RECURSIVE page_elements_from(_, _, _, _)
page_elements_from(blocks, page_num, b, median) ==
    IF b > Len(blocks) THEN <<>>
    ELSE (LET block_text == strip(blocks[b].text \o " ", Whitespace)
              isdigit == /\ Len(block_text) > 0
                         /\ \A i \in 1..Len(block_text) : \E d \in 1..10 :
                               SubSeq("0123456789", d, d) = SubSeq(block_text, i, i)
          IN IF \/ blocks[b].image
                \/ Len(block_text) = 0
                \/ isdigit /\ Len(block_text) <= 3
             THEN <<>>
             ELSE <<[type |-> element_type(block_text, blocks[b].size,
                                           blocks[b].bold, median),
                     text |-> Take(block_text, 500), page |-> page_num,
                     block_idx |-> b - 1]>>)
         \o page_elements_from(blocks, page_num, b + 1, median)

\* detect_content_elements: the elements of the pages from page p on
RECURSIVE detect_content_elements(_, _)
detect_content_elements(doc, p) ==
    IF median_size(doc) = 0 \/ p > Len(doc) THEN <<>>
    ELSE page_elements_from(doc[p], p - 1, 1, median_size(doc))
            \o detect_content_elements(doc, p + 1)

\* detect_content_elements(pdf_path) on a document of one page of up to
\* MaxBlocks blocks, alone or followed by a page of three paragraphs; the
\* blocks are an image block or a text block: prose, formulas, page numbers
\* and empty texts, in five sizes
DetectContentElements ==
    LET Prose == "The method of the study improves the reading order of documents. "
        Texts == {"Introduction", "ab", "12", "  ", "3 + 4 = 7", "[16,000 23 42]",
                  "f(x) = a", Prose,
                  "The method of Smith (2019) improves the reading order",
                  "See the appendix (in the second volume) for details",
                  Prose \o Prose \o Prose \o Prose}
        InputBlocks ==
            {[image |-> TRUE, text |-> "", size |-> 0, bold |-> FALSE]}
            \cup [image : {FALSE}, text : Texts, size : {8, 10, 11, 13, 15},
                  bold : {FALSE}]
            \cup [image : {FALSE}, text : {"Introduction", Prose}, size : {8, 10, 11},
                  bold : {TRUE}]
    IN
    /\ last.op = "none"
    /\ \E first \in UNION {[1..n -> InputBlocks] : n \in 0..MaxBlocks} :
        \E rest \in {<<>>, <<[b \in 1..3 |->
                               [image |-> FALSE, text |-> "Plain text of the body.",
                                size |-> 10, bold |-> FALSE]]>>} :
          /\ elements' = detect_content_elements(<<first>> \o rest, 1)
          /\ last' = [op |-> "detect_content_elements", result |-> "ok",
                      doc |-> <<first>> \o rest]
    /\ UNCHANGED <<pages, Root, objs, headings, figures, existing, rewritten, calls,
                   runs, stem, title_text, report, validated, http>>

InitDetect ==
    /\ Opened(UntaggedFile(1, PlainPage, None))
    /\ elements = <<>>
    /\ headings = <<>>
    /\ figures = <<>>
    /\ title_text = None
    /\ report = None

SpecDetect == InitDetect /\ [][DetectContentElements]_vars

-----------------------------------------------------------------------------
\* C21: a block that passes the formula test is classified Formula whatever
\* its size or weight; any other block shorter than 200 characters is H1 from
\* 1.5 times the median size, H2 from 1.25 times, H3 from 1.1 times; a bold
\* block of at least the median size and under 100 characters that meets no
\* size threshold is H3; every other kept block is P.
C21_ClassificationOrder ==
    last.op = "detect_content_elements" =>
        \A i \in 1..Len(elements) :
            LET e == elements[i]
                block == last.doc[e.page + 1][e.block_idx + 1]
                m == median_size(last.doc)
                n == Len(e.text)
                s == block.size
            IN /\ is_formula(e.text) => e.type = "Formula"
               /\ ~is_formula(e.text) /\ n < 200 =>
                    /\ 2 * s >= 3 * m => e.type = "H1"
                    /\ 4 * s >= 5 * m /\ 2 * s < 3 * m => e.type = "H2"
                    /\ 10 * s >= 11 * m /\ 4 * s < 5 * m => e.type = "H3"
               /\ ~is_formula(e.text) /\ block.bold /\ s >= m /\ n < 100
                    /\ 10 * s < 11 * m => e.type = "H3"
               /\ /\ ~is_formula(e.text)
                  /\ n >= 200 \/ 10 * s < 11 * m
                  /\ ~(block.bold /\ s >= m /\ n < 100)
                  => e.type = "P"

\* a document whose first page holds a formula and a heading, both 1.5 times
\* the median size, has been classified
C21_EveryBranchClassified ==
    /\ last.op = "detect_content_elements"
    /\ Len(elements) = 5
    /\ median_size(last.doc) = 10
    /\ last.doc[1][1].size = 15 /\ elements[1].type = "Formula"
    /\ last.doc[1][2].size = 15 /\ elements[2].type = "H1"

-----------------------------------------------------------------------------
\* C22: an element is classified Formula only if its text holds a math
\* character and has an alphabetic fraction under 0.6 of its non-blank
\* characters or fewer than 30 characters, or begins with an opening bracket
\* followed by digits or separators, or is under 50 characters of digits,
\* separators and operators only.
C22_FormulaOnlyByTheTest ==
    last.op = "detect_content_elements" =>
        \A k \in 1..Len(elements) :
            LET t == elements[k].text
                among(i, s) == \E j \in 1..Len(s) : SubSeq(s, j, j) = SubSeq(t, i, i)
                alpha == Cardinality({i \in 1..Len(t) :
                            among(i, "abcdefghijklmnopqrstuvwxyzABCDEFGHIJKLMNOPQRSTUVWXYZ")})
                total == Cardinality({i \in 1..Len(t) : ~among(i, " ")})
            IN elements[k].type = "Formula" =>
                \/ /\ \E i \in 1..Len(t) : among(i, "[](){}")
                   /\ 10 * alpha < 6 * total \/ Len(t) < 30
                \/ Len(t) >= 2 /\ among(1, "[(") /\ among(2, "0123456789,. ")
                \/ Len(t) < 50 /\ \A i \in 1..Len(t) : among(i, "0123456789 ,.-+*/=<>")

-----------------------------------------------------------------------------
\* C23: on every page the block_idx values of the emitted elements are
\* 0..K-1 in ascending order, K the number of elements of the page, so each
\* element's block_idx is its rank on the page, the MCID add_content_tags
\* gives it.
C23_BlockIdxDense ==
    last.op = "detect_content_elements" =>
        \A i \in 1..Len(elements) :
            elements[i].block_idx =
                Cardinality({j \in 1..(i - 1) : elements[j].page = elements[i].page})

-----------------------------------------------------------------------------
\* C25: after add_content_tags no two pages have the same StructParents
\* value, and every StructParents value of a page is a key of the Nums array
\* of the ParentTree.
C25_StructParentsUniqueKeys ==
    ContentTagged =>
        /\ \A p, q \in 1..Len(pages) :
              p # q /\ pages[p].StructParents # NoKey =>
                  pages[p].StructParents # pages[q].StructParents
        /\ \A p \in 1..Len(pages) :
              pages[p].StructParents # NoKey =>
                  ParentTreeEntries(pages[p].StructParents) # {}

-----------------------------------------------------------------------------
\* C26: generate_formula_descriptions makes at most max_formulas describer
\* calls on the elements of the document, whatever the outcome of each call
\* and whether or not there is an API key.
C26_AtMostMaxFormulasCalls ==
    last.op = "create_full_structure" =>
        \A max_formulas \in 0..MaxElems, api_key \in BOOLEAN :
            \A outcomes \in [1..Cardinality(Formulas(elements)) -> FormulaOutcomes] :
                Len(generate_formula_descriptions(elements, max_formulas, outcomes,
                                                  api_key).calls) <= max_formulas

-----------------------------------------------------------------------------
\* C28: after add_content_tags every page with a classified element has its
\* page index as StructParents; Nums holds exactly the keys of those pages in
\* strictly ascending order, each with the array of the page's leaf
\* StructElems in MCID order; ParentTreeNextKey is the number of pages and
\* greater than every key of Nums.
C28_ParentTreeLayout ==
    ContentTagged =>
        LET tree == Get(Root.StructTreeRoot)
            nums == tree.Nums
        IN /\ \A p \in 1..Len(pages) :
                (p - 1) \in PagesWithElements(elements) => pages[p].StructParents = p - 1
           /\ {nums[i].key : i \in 1..Len(nums)} = PagesWithElements(elements)
           /\ \A i, j \in 1..Len(nums) : i < j => nums[i].key < nums[j].key
           /\ \A i \in 1..Len(nums) :
                /\ Len(nums[i].arr) = Len(ElementsOfPage(elements, nums[i].key))
                /\ \A m \in 1..Len(nums[i].arr) :
                      ElemsWithMcr(nums[i].key, m - 1) = {nums[i].arr[m]}
                /\ nums[i].key < Get(tree.ParentTreeNextKey)
           /\ tree.ParentTreeNextKey = Some(Len(pages))

\* add_content_tags has run on a two-page document with elements on both
\* pages
C28_TwoEntriesWritten ==
    /\ ContentTagged
    /\ Len(pages) = 2
    /\ Len(Get(Root.StructTreeRoot).Nums) = 2

-----------------------------------------------------------------------------
(* make_accessible step by step: the position of the handler is last.result, *)
(* "structured" after step 1 (create_full_structure), then one describer     *)
(* call per figure (step 3), then the injection of the Alt texts (step 4).   *)

\* Step 1: create_full_structure(pdf_path, tag_headings=True, fix_links=True)
MakeAccessibleStructure ==
    /\ Run
    /\ last.op = "none"
    /\ LET r == create_full_structure(File, elements, headings, "en-US", TRUE, TRUE,
                    FALSE, DefaultMaxAiFormulas, <<>>, FALSE, TRUE, stem, title_text)
       IN /\ pages' = r.file.pages
          /\ Root' = r.file.Root
          /\ objs' = r.file.objs
          /\ existing' = r.existing
          /\ rewritten' = r.rewritten
          /\ calls' = r.calls
    /\ last' = [op |-> "make_accessible", result |-> "structured"]
    /\ stem' = stem \o "_full_structure"

\* Step 3, one turn of the loop: generate_alt_text for the next figure
MakeAccessibleDescribe ==
    /\ last = [op |-> "make_accessible", result |-> "structured"]
    /\ Len(calls) < Len(figures)
    /\ \E api_key \in BOOLEAN, outcome \in ModelOutcomes :
        LET r == generate_alt_text(outcome, api_key)
            fig == figures[Len(calls) + 1]
        IN /\ calls' = Append(calls, [kind |-> "figure",
                                      key |-> <<fig.page_num, fig.index>>,
                                      result |-> r.result, text |-> r.text])
           /\ last' = IF r.raised THEN [op |-> "make_accessible", result |-> "raised"]
                      ELSE last
    /\ UNCHANGED <<pages, Root, objs, elements, headings, figures, existing, rewritten,
                   runs, stem, title_text, report, validated, http>>

\* Step 4: inject_alt_text(working_path, figures_with_alt, output_path), or
\* the structured file when there is no figure
MakeAccessibleInject ==
    /\ last = [op |-> "make_accessible", result |-> "structured"]
    /\ Len(calls) = Len(figures)
    /\ Written(IF Len(figures) > 0
               THEN inject_alt_text(File, [i \in 1..Len(figures) |->
                        [figure |-> figures[i], alt_text |-> calls[i].text]])
               ELSE File, "make_accessible")
    /\ stem' = IF Len(figures) > 0 THEN stem \o "_accessible" ELSE stem
    /\ UNCHANGED <<elements, headings, figures, existing, rewritten, calls, runs,
                   title_text, report, validated, http>>

SpecPipeline ==
    InitAlt /\ [][MakeAccessibleStructure \/ MakeAccessibleDescribe
                    \/ MakeAccessibleInject]_vars

\* C24: a page is rewritten only when the Alt text of every Figure on it has
\* been resolved by a describer call or substituted, and no describer call
\* for something on a page is made after that page was rewritten.
C24_AltResolvedBeforeRewrite ==
    [][/\ \A p \in rewritten' \ rewritten :
            \A i \in 1..Len(figures) :
                figures[i].page_num = p =>
                    \E c \in 1..Len(calls') : calls'[c].key = <<p, figures[i].index>>
       /\ Len(calls') > Len(calls) => calls'[Len(calls')].key[1] \notin rewritten]_vars

-----------------------------------------------------------------------------
\* C29: every category score is in 0..100, and a report with one failure
\* lowers at most one category, by 5 times the weight of the failure's
\* severity: structure or metadata for a failure of clause 6.x or 7.1 whose
\* description mentions structure / marked or metadata / xmp, language for
\* clause 7.2, figures or links for clause 7.18.x, fonts for clause 7.21.x.
C29_CategoryRouting ==
    (validated.op = "calculate_morphmind_score"
        \/ (validated.op = "validate_pdfua" /\ validated.outcome = "parsed")) =>
        LET scores == validated.morphmind.category_scores
            rule == report.rules[1]
            sev == validated.morphmind.top_issues[1].severity
            drop == 5 * (CASE sev = "critical" -> 10 [] sev = "serious" -> 7
                           [] sev = "moderate" -> 3 [] OTHER -> 1)
            in_clause(c) == \/ rule.clause = c
                            \/ /\ Len(rule.clause) > Len(c)
                               /\ SubSeq(rule.clause, 1, Len(c) + 1) = c \o "."
            mentions(a, b) == contains(rule.description, a) \/ contains(rule.description, b)
            lowered == {c \in DOMAIN scores : scores[c] # 100}
        IN /\ \A c \in DOMAIN scores : scores[c] \in 0..100
           /\ Len(report.rules) = 1 =>
                /\ Cardinality(lowered) <= 1
                /\ \A c \in lowered : scores[c] = 100 - drop
                /\ (in_clause("6") \/ in_clause("7.1")) /\ mentions("tructure", "marked")
                      => lowered = {"structure"}
                /\ (in_clause("6") \/ in_clause("7.1")) /\ mentions("metadata", "XMP")
                      /\ ~mentions("tructure", "marked") => lowered = {"metadata"}
                /\ in_clause("7.2") => lowered = {"language"}
                /\ in_clause("7.18") => lowered \in {{"figures"}, {"links"}}
                /\ in_clause("7.21") => lowered = {"fonts"}

-----------------------------------------------------------------------------
(* The Streamable HTTP transport. http.sessions is the table sessions, a     *)
(* function from session ids to [created_at, last_used, initialized]; the    *)
(* i-th uuid4 of create_session is the id i; http.now is datetime.utcnow()   *)
(* in units of half the session timeout; http.response is the last request   *)
(* with its answer. ALLOWED_ORIGINS is not configured.                       *)

SESSION_TIMEOUT == 2
MaxSessions == 2    \* sessions created in one behaviour
MaxClock == 5       \* the last instant of the clock
MaxWait == 3        \* the longest time between two requests

\* verify_api_key: TRUE when the key is returned, FALSE when it raises 401
verify_api_key(x_api_key, authorization, VALID_API_KEYS) ==
    \/ IsSome(x_api_key) /\ Len(Get(x_api_key)) > 0 /\ Get(x_api_key) \in VALID_API_KEYS
    \/ /\ IsSome(authorization)
       /\ Len(Get(authorization)) >= 7
       /\ SubSeq(Get(authorization), 1, 7) = "Bearer "
       /\ SubSeq(Get(authorization), 8, Len(Get(authorization))) \in VALID_API_KEYS
    \/ VALID_API_KEYS = {}

\* cleanup_sessions: the table without the expired sessions
cleanup_sessions(sessions, now) ==
    [sid \in {i \in DOMAIN sessions : ~(now - sessions[i].last_used > SESSION_TIMEOUT)} |->
        sessions[sid]]

\* get_session that never expires a session
get_session_without_timeout(sessions, session_id, now) ==
    IF session_id \notin DOMAIN sessions THEN [session |-> None, sessions |-> sessions]
    ELSE [session |-> Some([sessions[session_id] EXCEPT !.last_used = now]),
          sessions |-> [sessions EXCEPT ![session_id].last_used = now]]

\* get_session: the session returned, if any, and the table afterwards
get_session(sessions, session_id, now) ==
    IF session_id \notin DOMAIN sessions THEN [session |-> None, sessions |-> sessions]
    ELSE IF now - sessions[session_id].last_used > SESSION_TIMEOUT
    THEN [session |-> None,
          sessions |-> [sid \in DOMAIN sessions \ {session_id} |-> sessions[sid]]]
    ELSE [session |-> Some([sessions[session_id] EXCEPT !.last_used = now]),
          sessions |-> [sessions EXCEPT ![session_id].last_used = now]]

\* the module is loaded: VALID_API_KEYS is read from MCP_API_KEYS, unset or k1
McpServerStart ==
    /\ http.response.method = "none"
    /\ \E keys \in {{}, {"k1"}} :
          http' = [http EXCEPT !.VALID_API_KEYS = keys, !.response.method = "start"]
    /\ UNCHANGED <<pages, Root, objs, elements, headings, figures, existing, rewritten,
                   calls, last, runs, stem, title_text, report, validated>>

\* GET /mcp
McpGet ==
    \E x_api_key \in {None, Some("k1"), Some("guess")},
       authorization \in {None, Some("Bearer k1"), Some("k1")} :
      \E now \in http.now..Min(MaxClock, http.now + MaxWait), mcp_session_id \in {None} \cup {Some(i) : i \in 1..MaxSessions} :
        /\ http.response.method # "none"
        /\ UNCHANGED <<pages, Root, objs, elements, headings, figures, existing,
                       rewritten, calls, last, runs, stem, title_text, report, validated>>
        /\ LET request == [method |-> "GET", x_api_key |-> x_api_key,
                           authorization |-> authorization, session |-> mcp_session_id,
                           called |-> 0]
               got == get_session(http.sessions, Get(mcp_session_id), now)
           IN http' =
                IF ~verify_api_key(x_api_key, authorization, http.VALID_API_KEYS)
                THEN [http EXCEPT !.now = now, !.response = request @@ [status |-> 401]]
                ELSE IF ~IsSome(mcp_session_id)
                THEN [http EXCEPT !.now = now, !.response = request @@ [status |-> 200]]
                ELSE [http EXCEPT !.now = now, !.sessions = got.sessions,
                                  !.response = request @@
                                     [status |-> IF IsSome(got.session) THEN 200 ELSE 404]]

\* POST /mcp with one JSON-RPC request of the given method
McpPost ==
    \E x_api_key \in {None, Some("k1"), Some("guess")},
       authorization \in {None, Some("Bearer k1"), Some("k1")} :
      \E now \in http.now..Min(MaxClock, http.now + MaxWait), method \in {"initialize", "tools/call", "ping"} :
        /\ http.response.method # "none"
        /\ UNCHANGED <<pages, Root, objs, elements, headings, figures, existing,
                       rewritten, calls, last, runs, stem, title_text, report, validated>>
        /\ method = "initialize" => http.created < MaxSessions
        /\ LET request == [method |-> "POST", x_api_key |-> x_api_key,
                           authorization |-> authorization, session |-> None]
               kept == cleanup_sessions(http.sessions, now)
               new_session_id == http.created + 1
           IN http' =
                IF ~verify_api_key(x_api_key, authorization, http.VALID_API_KEYS)
                THEN [http EXCEPT !.now = now,
                                  !.response = request @@ [status |-> 401, called |-> 0]]
                ELSE IF method = "initialize"
                THEN [http EXCEPT !.now = now, !.created = new_session_id,
                        !.sessions = (new_session_id :> [created_at |-> now,
                                                         last_used |-> now,
                                                         initialized |-> TRUE]) @@ kept,
                        !.response = [request EXCEPT !.session = Some(new_session_id)]
                                        @@ [status |-> 200, called |-> 0]]
                ELSE [http EXCEPT !.now = now, !.sessions = kept,
                        !.response = request @@
                            [status |-> 200,
                             called |-> IF method = "tools/call" THEN 1 ELSE 0]]

\* DELETE /mcp
McpDelete ==
    \E x_api_key \in {None, Some("k1"), Some("guess")},
       authorization \in {None, Some("Bearer k1"), Some("k1")} :
      \E now \in http.now..Min(MaxClock, http.now + MaxWait), mcp_session_id \in 1..MaxSessions :
        /\ http.response.method # "none"
        /\ UNCHANGED <<pages, Root, objs, elements, headings, figures, existing,
                       rewritten, calls, last, runs, stem, title_text, report, validated>>
        /\ LET request == [method |-> "DELETE", x_api_key |-> x_api_key,
                           authorization |-> authorization,
                           session |-> Some(mcp_session_id), called |-> 0]
           IN http' =
                IF ~verify_api_key(x_api_key, authorization, http.VALID_API_KEYS)
                THEN [http EXCEPT !.now = now, !.response = request @@ [status |-> 401]]
                ELSE IF mcp_session_id \in DOMAIN http.sessions
                THEN [http EXCEPT !.now = now,
                        !.sessions = [sid \in DOMAIN http.sessions \ {mcp_session_id} |->
                                         http.sessions[sid]],
                        !.response = request @@ [status |-> 204]]
                ELSE [http EXCEPT !.now = now, !.response = request @@ [status |-> 404]]

SpecHttp == InitDetect /\ [][McpServerStart \/ McpGet \/ McpPost \/ McpDelete]_vars

-----------------------------------------------------------------------------
\* C27: every request to /mcp that was served, and every request that
\* executed a tool, presented a configured API key in X-API-Key or in
\* Authorization: Bearer; any other request was answered 401 and executed no
\* tool.
C27_ServedOnlyWithValidKey ==
    http.response.method \in {"GET", "POST", "DELETE"} =>
        LET r == http.response
            presented ==
                \/ IsSome(r.x_api_key) /\ Get(r.x_api_key) \in http.VALID_API_KEYS
                \/ \E key \in http.VALID_API_KEYS : r.authorization = Some("Bearer " \o key)
        IN /\ r.status # 401 \/ r.called > 0 => presented
           /\ ~presented => r.status = 401 /\ r.called = 0

\* C30: get_session accepts a session only if its id was created by
\* create_session, is still in the table and was last used at most
\* SESSION_TIMEOUT ago, and then sets last_used to the present; the ids of the
\* table are created ids, after a POST or a refused GET no expired session of
\* the request is left, and an id removed from the table never returns to it.
C30_SessionLifecycle ==
    [][LET r == http'.response
           sid == Get(r.session)
       IN /\ DOMAIN http'.sessions \subseteq 1..http'.created
          /\ \A i \in 1..http.created :
                i \notin DOMAIN http.sessions => i \notin DOMAIN http'.sessions
          /\ r.method = "GET" /\ IsSome(r.session) /\ r.status = 200 =>
                /\ sid \in DOMAIN http.sessions
                /\ sid \in 1..http.created
                /\ http'.now - http.sessions[sid].last_used <= SESSION_TIMEOUT
                /\ http'.sessions[sid].last_used = http'.now
          /\ r.method = "GET" /\ IsSome(r.session) /\ r.status = 404 =>
                sid \notin DOMAIN http'.sessions
          /\ r.method = "DELETE" /\ r.status # 401 => sid \notin DOMAIN http'.sessions
          /\ r.method = "POST" /\ r.status = 200 =>
                \A i \in DOMAIN http'.sessions :
                    http'.now - http'.sessions[i].last_used <= SESSION_TIMEOUT]_vars

\* a session was accepted and refreshed some time after its creation while
\* another session of the table has expired or was removed
C30_SessionRefreshed ==
    /\ http.response.method = "GET"
    /\ http.response.status = 200
    /\ IsSome(http.response.session)
    /\ LET sid == Get(http.response.session)
       IN /\ http.sessions[sid].last_used > http.sessions[sid].created_at + SESSION_TIMEOUT
          /\ http.created = MaxSessions
          /\ DOMAIN http.sessions = {sid}

====
